---- MODULE Spec2Model ----
(***************************************************************************)
(* Mobile_LogoCraft: the canvas-fit resizer (models/image_processor.py),   *)
(* the notification-icon processor (models/push_processor.py), the         *)
(* background remover (models/background_remover.py) and the batch         *)
(* orchestrator (services/image_processing_service.py).                    *)
(*                                                                         *)
(* Images are modelled by their size and by the set of pixel values they   *)
(* contain.  A pixel is [v, a]: a gray colour R = G = B = v and an alpha a.*)
(* Source images are uniform (one pixel value); every filter the code      *)
(* applies (Lanczos/box resize, Gaussian blur, Canny, Otsu, dilation) is   *)
(* computed exactly on such images.                                        *)
(*                                                                         *)
(* A Python call that raises is modelled by a return record with           *)
(* raised = TRUE and the exception text in error.                          *)
(***************************************************************************)
EXTENDS Integers, Sequences, FiniteSets, TLC

VARIABLES
    src,                \* the source file on disk (input_path)
    service,            \* outcome of ImageProcessingService.__init__
    pc,                 \* position inside process_batch
    selected_formats,   \* process_batch argument
    remove_background,  \* process_batch argument
    pending,            \* formats the for-loop has not reached yet
    results,            \* the results list of process_batch
    files,              \* output directory: path -> file at that path (or NoFile)
    dir_exists,         \* whether output_dir exists
    steps,              \* format -> steps executed while processing it
    call,               \* last direct call of a processor method and its return
    ndarray,            \* the array handed to BackgroundRemover / the stylizer
    remover,            \* the BackgroundRemover instance: its field method
    worker,             \* the ImageProcessingWorker: its fields and loop position
    jobs,               \* per-format calls running side by side
    window,             \* MainWindow and its FormatSelector, thread and worker objects
    signals             \* the signals the worker of the window has emitted, in order

vars == << src, service, pc, selected_formats, remove_background, pending,
           results, files, dir_exists, steps, call, ndarray, remover, worker, jobs,
           window, signals >>

batchVars == << service, pc, selected_formats, remove_background, pending,
                results, files, dir_exists, steps >>

pixelVars == << ndarray, remover >>

threadVars == << worker, jobs >>

uiVars == << window, signals >>

----------------------------------------------------------------------------
(* Bounds of the model *)

\* number of entries of SizeList used as source widths and heights
NumSizes == 13

\* largest number of formats requested in one batch
MaxFormats == 3

\* largest number of process_single_format calls made one after another
MaxCalls == 2

\* largest number of dark cells placed freely in an array handed to the
\* background remover
MaxDark == 2

\* side lengths of source images; the first NumSizes are used
SizeList == << 90, 5000, 500, 2000, 800, 199, 100, 140, 1305, 896, 89, 5001, 32, 255 >>

Sizes == { SizeList[i] : i \in 1..(IF NumSizes < Len(SizeList) THEN NumSizes ELSE Len(SizeList)) }

----------------------------------------------------------------------------
(* Settings of models/image_processor.py *)

MB == 1024 * 1024

IP_max_file_size == 50 * MB

IP_allowed_formats == { ".png", ".jpg", ".jpeg", ".gif", ".bmp", ".tiff", ".jfif" }

IP_min_dimension == 90

IP_max_dimension == 5000

Transparent == << 0, 0, 0, 0 >>

White == << 255, 255, 255, 255 >>

IP_FORMAT_CONFIGS ==
    [ APPICON         |-> [ size |-> << 1024, 1024 >>, bg_color |-> Transparent ],
      DEFAULT         |-> [ size |-> << 1242, 1902 >>, bg_color |-> White ],
      DEFAULT_LG      |-> [ size |-> << 1242, 2208 >>, bg_color |-> White ],
      DEFAULT_XL      |-> [ size |-> << 1242, 2688 >>, bg_color |-> White ],
      FEATURE_GRAPHIC |-> [ size |-> << 1024, 500 >>,  bg_color |-> White ],
      LOGO            |-> [ size |-> << 1024, 1024 >>, bg_color |-> Transparent ],
      LOGO_WIDE       |-> [ size |-> << 1024, 500 >>,  bg_color |-> Transparent ] ]

(* Settings of models/base.py *)

Base_FORMAT_CONFIGS ==
    [ APPICON         |-> [ size |-> << 1024, 1024 >>, bg_color |-> Transparent ],
      DEFAULT         |-> [ size |-> << 1242, 1902 >>, bg_color |-> White ],
      DEFAULT_LG      |-> [ size |-> << 1242, 2208 >>, bg_color |-> White ],
      DEFAULT_XL      |-> [ size |-> << 1242, 2688 >>, bg_color |-> White ],
      FEATURE_GRAPHIC |-> [ size |-> << 1024, 500 >>,  bg_color |-> White ],
      LOGO            |-> [ size |-> << 1024, 1024 >>, bg_color |-> Transparent ],
      PUSH            |-> [ size |-> << 96, 96 >>,     bg_color |-> << 255, 255, 255, 0 >> ] ]

(* Settings of config/formats.py, read by models/push_processor.py *)

CFG_max_file_size == 50 * MB

CFG_ALLOWED_FORMATS == { ".png", ".jpg", ".jpeg", ".gif", ".bmp", ".tiff", ".jfif" }

CFG_min_dimension == 90

CFG_max_dimension == 5000

\* the eight identifiers of the format catalogue
FormatIds == { "APPICON", "LOGO", "LOGO_WIDE", "FEATURE_GRAPHIC",
               "DEFAULT", "DEFAULT_LG", "DEFAULT_XL", "PUSH" }

----------------------------------------------------------------------------
(* Files and images *)

\* str.lower() on the suffixes the model uses
Lower(s) ==
    CASE s = ".PNG"  -> ".png"
      [] s = ".JPG"  -> ".jpg"
      [] s = ".Jfif" -> ".jfif"
      [] OTHER       -> s

Suffixes == { ".png", ".PNG", ".JPG", ".Jfif", ".gif", ".webp", ".txt", "" }

Pixel(v, a) == [ v |-> v, a |-> a ]

\* an image of w x h pixels holding exactly the pixel values px
Img(w, h, px) == [ w |-> w, h |-> h, px |-> px ]

NoFile == [ w |-> 0, h |-> 0, px |-> {} ]

\* a source file: decodable = its bytes are an image PIL and OpenCV can read;
\* w, h, v, a describe that image (0 x 0 when there is none)
File(exists, suffix, st_size, decodable, w, h, v, a) ==
    LET image == exists /\ decodable
    IN  [ exists |-> exists, suffix |-> suffix,
          st_size |-> IF exists THEN st_size ELSE 0,
          decodable |-> image,
          w |-> IF image THEN w ELSE 0, h |-> IF image THEN h ELSE 0,
          v |-> IF image THEN v ELSE 0, a |-> IF image THEN a ELSE 0 ]

\* a readable, opaque PNG of the given size and gray colour
PngFile(w, h, v) == File(TRUE, ".png", 1000, TRUE, w, h, v, 255)

Ok == [ raised |-> FALSE, error |-> "" ]

Raise(msg) == [ raised |-> TRUE, error |-> msg ]

----------------------------------------------------------------------------
(* ImageProcessor.validate_file / validate_dimensions *)

IP_validate_file(f) ==
    IF ~ f.exists THEN Raise("File not found")
    ELSE IF Lower(f.suffix) \notin IP_allowed_formats THEN Raise("Unsupported format")
    ELSE IF f.st_size > IP_max_file_size THEN Raise("File too large")
    ELSE Ok

\* mutant of IP_validate_dimensions: the bounds themselves are rejected
IP_validate_dimensions_Strict(w, h) ==
    IF w <= IP_min_dimension \/ h <= IP_min_dimension THEN Raise("Image too small")
    ELSE IF w >= IP_max_dimension \/ h >= IP_max_dimension THEN Raise("Image too large")
    ELSE Ok

IP_validate_dimensions(w, h) ==
    IF w < IP_min_dimension \/ h < IP_min_dimension THEN Raise("Image too small")
    ELSE IF w > IP_max_dimension \/ h > IP_max_dimension THEN Raise("Image too large")
    ELSE Ok

----------------------------------------------------------------------------
(* ImageProcessor.calculate_dimensions                                     *)
(* img_ratio = img_width / img_height is an IEEE-754 double, and int()     *)
(* truncates the double product or quotient.  The truncation equals the    *)
(* exact floor except where the exact value is an integer q and the double *)
(* lands just below it, giving q - 1: MulShort and DivShort list those     *)
(* triples << t, w, h >> among the sizes of SizeList.                      *)

MulShort == { << 2688, 1305, 896 >> }

DivShort == { << 1242, 90, 140 >>, << 1242, 90, 255 >> }

\* int(t * (w / h))
IntMulRatio(t, w, h) ==
    IF << t, w, h >> \in MulShort THEN ((t * w) \div h) - 1 ELSE (t * w) \div h

\* int(t / (w / h))
IntDivRatio(t, w, h) ==
    IF << t, w, h >> \in DivShort THEN ((t * h) \div w) - 1 ELSE (t * h) \div w

\* mutant of calculate_dimensions: the width-pinned branch multiplies by the
\* ratio instead of dividing by it
calculate_dimensions_Inverted(img_size, target_size) ==
    IF img_size[1] * target_size[2] > target_size[1] * img_size[2]
    THEN << IntMulRatio(target_size[2], img_size[1], img_size[2]), target_size[2] >>
    ELSE << target_size[1], IntMulRatio(target_size[1], img_size[1], img_size[2]) >>

calculate_dimensions(img_size, target_size) ==
    LET img_width     == img_size[1]
        img_height    == img_size[2]
        target_width  == target_size[1]
        target_height == target_size[2]
    IN  IF img_width * target_height > target_width * img_height
        THEN << IntMulRatio(target_height, img_width, img_height), target_height >>
        ELSE << target_width, IntDivRatio(target_width, img_width, img_height) >>

----------------------------------------------------------------------------
(* PIL operations on the modelled images *)

\* Image.resize with a filter other than NEAREST: an RGBA image is resampled
\* in premultiplied form, so a fully transparent pixel loses its colour;
\* resampling a uniform image leaves it uniform
Resize(img, size) ==
    Img(size[1], size[2],
        { IF p.a = 0 THEN Pixel(0, 0) ELSE p : p \in img.px })

\* mutant of NewCanvas: width and height exchanged
NewCanvas_Swapped(size, color) == Img(size[2], size[1], { Pixel(color[1], color[4]) })

\* Image.new(mode, size, color)
NewCanvas(size, color) == Img(size[1], size[2], { Pixel(color[1], color[4]) })

\* the part of the canvas covered by an image of size sz pasted at (left, top)
PasteBox(canvas, sz, left, top) ==
    LET Max(a, b) == IF a > b THEN a ELSE b
        Min(a, b) == IF a < b THEN a ELSE b
    IN  [ x0 |-> Max(left, 0), y0 |-> Max(top, 0),
          x1 |-> Min(left + sz[1], canvas.w), y1 |-> Min(top + sz[2], canvas.h) ]

\* Image.paste(im, (left, top), mask = im): inside the box an opaque pixel of
\* im replaces the canvas pixel and a fully transparent one leaves it
Paste(canvas, im, left, top) ==
    LET box     == PasteBox(canvas, << im.w, im.h >>, left, top)
        covered == box.x1 > box.x0 /\ box.y1 > box.y0
        whole   == covered /\ box.x0 = 0 /\ box.y0 = 0
                           /\ box.x1 = canvas.w /\ box.y1 = canvas.h
        inside  == IF covered
                   THEN { p \in im.px : p.a = 255 } \cup
                        (IF \E p \in im.px : p.a = 0 THEN canvas.px ELSE {})
                   ELSE {}
    IN  Img(canvas.w, canvas.h, inside \cup (IF whole THEN {} ELSE canvas.px))

----------------------------------------------------------------------------
(* ImageProcessor.process_image                                            *)

\* the parameters of process_image(self, input_path, output_path, width,
\* height, bg_color)
process_image_params == { "input_path", "output_path", "width", "height", "bg_color" }

\* int(n * 0.707): PROCESSING_SETTINGS['progressive_factor']
IntProgressive(n) == (n * 707) \div 1000

NoFit == [ new_size |-> << 0, 0 >>, left |-> 0, top |-> 0 ]

Failure(msg, st) ==
    [ raised |-> TRUE, error |-> msg, steps |-> st, out |-> NoFile, fit |-> NoFit ]

\* kw: the keyword arguments of the call; f: the file at input_path
process_image(kw, f, width, height, bg_color) ==
    IF ~ (kw \subseteq process_image_params)
    THEN Failure("TypeError: unexpected keyword argument", << >>)
    ELSE IF IP_validate_file(f).raised
    THEN Failure(IP_validate_file(f).error, << "validate_file" >>)
    ELSE IF ~ f.decodable
    THEN Failure("cannot identify image file", << "validate_file", "open" >>)
    ELSE IF IP_validate_dimensions(f.w, f.h).raised
    THEN Failure(IP_validate_dimensions(f.w, f.h).error,
                 << "validate_file", "open", "validate_dimensions" >>)
    ELSE
        LET img         == Img(f.w, f.h, { Pixel(f.v, f.a) })
            new_size    == calculate_dimensions(<< img.w, img.h >>, << width, height >>)
            progressive == 2 * new_size[1] < img.w \/ 2 * new_size[2] < img.h
            img2        == IF progressive
                           THEN Resize(img, << IntProgressive(img.w), IntProgressive(img.h) >>)
                           ELSE img
            resized     == Resize(img2, new_size)
            final       == NewCanvas(<< width, height >>, bg_color)
            left        == (width - new_size[1]) \div 2
            top         == (height - new_size[2]) \div 2
            pasted      == Paste(final, resized, left, top)
        IN  [ raised |-> FALSE, error |-> "",
              steps  |-> << "validate_file", "open", "validate_dimensions", "convert",
                            "calculate_dimensions" >>
                         \o (IF progressive THEN << "resize" >> ELSE << >>)
                         \o << "resize", "paste", "save" >>,
              out    |-> pasted,
              fit    |-> [ new_size |-> new_size, left |-> left, top |-> top ] ]

\* ImageProcessor.get_format_config and process_format
process_format(f, format_name) ==
    IF format_name \notin DOMAIN IP_FORMAT_CONFIGS
    THEN Failure("Unknown format", << >>)
    ELSE LET config == IP_FORMAT_CONFIGS[format_name]
         IN  process_image(process_image_params, f,
                           config.size[1], config.size[2], config.bg_color)

\* ImageProcessor.process_logo
process_logo(f, wide) == process_format(f, IF wide THEN "LOGO_WIDE" ELSE "LOGO")

----------------------------------------------------------------------------
(* BackgroundRemover (models/background_remover.py)                        *)
(* An OpenCV array is [w, h, ch, px]: ch = 3 for BGR, 4 for BGRA; px holds *)
(* pixels [v, a], a = 255 in a 3-channel array.                            *)

CvImg(w, h, ch, px) == [ w |-> w, h |-> h, ch |-> ch, px |-> px ]

\* the threshold cv2.threshold(..., THRESH_OTSU) selects for an image of one
\* gray level: every split leaves one class empty, so the search keeps its
\* initial value 0 whatever the gray level is
OtsuThreshold(grays) == 0

\* BackgroundRemover.detect_white_background(image, threshold=240, coverage=0.9):
\* the border is the top and bottom rows and the left and right columns
\* without their corners; on a uniform image every border pixel has the
\* image's gray value
detect_white_background(image) ==
    LET threshold     == 240
        border_pixels == 2 * image.w + 2 * (image.h - 2)
        white_pixels  == IF \A p \in image.px : p.v >= threshold THEN border_pixels ELSE 0
    IN  10 * white_pixels >= 9 * border_pixels

\* BackgroundRemover._add_alpha_channel
add_alpha_channel(image) ==
    IF image.ch = 3
    THEN CvImg(image.w, image.h, 4, { Pixel(p.v, 255) : p \in image.px })
    ELSE image

\* _contour_detection_method: Canny finds no edge in a uniform image, so no
\* contour is filled
contour_detection_method(image) == { 0 }

\* _threshold_method: Otsu with THRESH_BINARY_INV, 255 where gray <= threshold
threshold_method(image) ==
    LET grays == { p.v : p \in image.px }
    IN  { IF v > OtsuThreshold(grays) THEN 0 ELSE 255 : v \in grays }

\* _combine_masks: bitwise OR of two uniform masks
combine_masks(mask1, mask2) ==
    { IF m1 = 255 \/ m2 = 255 THEN 255 ELSE 0 : m1 \in mask1, m2 \in mask2 }

\* _apply_morphological_operations, _refine_contours, _final_cleanup: closing
\* and contour re-filling leave an all-0 or all-255 mask as it is (the one
\* contour of a full mask is the image rectangle, larger than 100 px)
refine_mask(mask) == mask

\* _apply_transparency: the mask becomes the alpha channel
apply_transparency(image, mask) ==
    CvImg(image.w, image.h, 4, { Pixel(p.v, m) : p \in image.px, m \in mask })

\* _remove_with_combined_pipeline
remove_with_combined_pipeline(image) ==
    LET contour_mask   == contour_detection_method(image)
        threshold_mask == threshold_method(image)
        combined_mask  == combine_masks(contour_mask, threshold_mask)
        cleaned_mask   == refine_mask(combined_mask)
    IN  apply_transparency(image, cleaned_mask)

\* BackgroundRemover.remove_background with the default method COMBINED
remove_background_image(image) ==
    IF ~ detect_white_background(image)
    THEN add_alpha_channel(image)
    ELSE remove_with_combined_pipeline(image)

----------------------------------------------------------------------------
(* BackgroundRemover on arrays given pixel by pixel                        *)
(* The cells of a w x h array are numbered 1..w*h row by row.  gray[c] is  *)
(* the gray level of cell c (its colour is R = G = B = gray[c]), alpha[c]  *)
(* its alpha, 255 throughout unless ch = 4.  ch = 3 is a BGR array, ch = 4 *)
(* a BGRA array and ch = 1 a two-dimensional grayscale array.              *)

Array(w, h, ch, gray, alpha) ==
    [ w |-> w, h |-> h, ch |-> ch, gray |-> gray, alpha |-> alpha ]

NoArray == Array(0, 0, 0, << >>, << >>)

Cells(a) == 1..(a.w * a.h)

\* the cell in column x and row y, both counted from 0 as numpy does
CellAt(a, x, y) == y * a.w + x + 1

Max0(n) == IF n < 0 THEN 0 ELSE n

Opaque(a) == [ c \in Cells(a) |-> 255 ]

\* class RemovalMethod(Enum): the values of its members
RemovalMethod == { "contour_detection", "threshold", "chroma_key", "grabcut", "combined" }

\* BackgroundRemover.__init__(self, method = RemovalMethod.COMBINED)
BackgroundRemover_init_default == "combined"

\* BackgroundRemover.detect_white_background(image, threshold=240, coverage=0.9)
\* on an array: border_pixels concatenates gray[0, :], gray[-1, :],
\* gray[1:-1, 0] and gray[1:-1, -1]; white_pixels / len(border_pixels) >= 0.9
\* is decided exactly by 10 * white_pixels >= 9 * len(border_pixels)
BackgroundRemover_detect_white_background(a) ==
    LET threshold     == 240
        Row(y)        == [ x \in 1..a.w |-> a.gray[CellAt(a, x - 1, y)] ]
        Col(x)        == [ y \in 1..Max0(a.h - 2) |-> a.gray[CellAt(a, x, y)] ]
        border_pixels == Row(0) \o Row(a.h - 1) \o Col(0) \o Col(a.w - 1)
        white_pixels  == Cardinality({ i \in 1..Len(border_pixels) :
                                         border_pixels[i] >= threshold })
    IN  10 * white_pixels >= 9 * Len(border_pixels)

\* what remove_background hands back: the array returned, or the exception
\* that leaves it, with the steps executed
Returned(out, st) ==
    [ raised |-> FALSE, error |-> "", steps |-> st, out |-> out, fit |-> NoFit ]

Propagated(msg, st) ==
    [ raised |-> TRUE, error |-> msg, steps |-> st, out |-> NoArray, fit |-> NoFit ]

\* BackgroundRemover._add_alpha_channel: image.shape[2] does not exist for a
\* two-dimensional array; an array that has four channels is returned as it is
BackgroundRemover_add_alpha_channel(a, st) ==
    IF a.ch = 1
    THEN Propagated("IndexError: tuple index out of range", st \o << "_add_alpha_channel" >>)
    ELSE IF a.ch = 3
    THEN Returned(Array(a.w, a.h, 4, a.gray, Opaque(a)), st \o << "_add_alpha_channel" >>)
    ELSE Returned(a, st \o << "_add_alpha_channel" >>)

\* whether the OpenCV calls of the method selected reject the array:
\* cv2.cvtColor(BGR2GRAY / BGR2HSV) needs 3 or 4 channels, cv2.grabCut needs
\* an 8-bit 3-channel image and a rectangle (10, 10, width-20, height-20)
\* that holds at least one pixel
StrategyRejects(method, a) ==
    \/ a.ch = 1
    \/ method = "grabcut" /\ (a.ch # 3 \/ a.w <= 20 \/ a.h <= 20)

\* the _remove_with_* method remove_background calls for self.method
StrategyOf(method) ==
    CASE method = "combined"          -> "_remove_with_combined_pipeline"
      [] method = "contour_detection" -> "_remove_with_contour_detection"
      [] method = "threshold"         -> "_remove_with_threshold"
      [] method = "chroma_key"        -> "_remove_with_chroma_key"
      [] method = "grabcut"           -> "_remove_with_grabcut"
      [] OTHER                        -> "_remove_with_combined_pipeline"

\* mutant of BackgroundRemover_apply_transparency: the pixels the mask removes
\* are painted white as well
BackgroundRemover_apply_transparency_Whitened(a, mask) ==
    Array(a.w, a.h, 4, [ c \in Cells(a) |-> IF mask[c] = 0 THEN 255 ELSE a.gray[c] ], mask)

\* BackgroundRemover._apply_transparency on an array: the mask becomes the
\* alpha channel
BackgroundRemover_apply_transparency(a, mask) == Array(a.w, a.h, 4, a.gray, mask)

\* BackgroundRemover.remove_background(self, image).
\* fault: "gate" or "strategy" when a library call inside that part raises
\* for a reason of its own (cv2.error, MemoryError), "none" otherwise;
\* mask: the mask the OpenCV calls of the strategy compute for the image.
BackgroundRemover_remove_background(self, a, fault, mask) ==
    LET gate == << "detect_white_background" >>
        run  == gate \o << StrategyOf(self.method) >>
    IN  IF fault = "gate"
        THEN BackgroundRemover_add_alpha_channel(a, gate \o << "except" >>)
        ELSE IF ~ BackgroundRemover_detect_white_background(a)
        THEN IF a.ch = 1
             THEN BackgroundRemover_add_alpha_channel(
                      a, gate \o << "_add_alpha_channel", "except" >>)
             ELSE BackgroundRemover_add_alpha_channel(a, gate)
        ELSE IF fault = "strategy" \/ StrategyRejects(self.method, a)
        THEN BackgroundRemover_add_alpha_channel(a, run \o << "except" >>)
        ELSE Returned(BackgroundRemover_apply_transparency(a, mask),
                      run \o << "_apply_transparency" >>)

----------------------------------------------------------------------------
(* PushProcessor (models/push_processor.py) *)

\* the parameters of PushProcessor.__init__(self, logger)
PushProcessor_init_params == { "logger" }

Push_validate_file(f) ==
    IF ~ f.exists THEN Raise("File not found")
    ELSE IF Lower(f.suffix) \notin CFG_ALLOWED_FORMATS THEN Raise("Unsupported format")
    ELSE IF f.st_size > CFG_max_file_size THEN Raise("File too large")
    ELSE Ok

Push_validate_dimensions(w, h) ==
    IF w < CFG_min_dimension \/ h < CFG_min_dimension THEN Raise("Image too small")
    ELSE IF w > CFG_max_dimension \/ h > CFG_max_dimension THEN Raise("Image too large")
    ELSE Ok

INTERMEDIATE_RESIZE == << 192, 192 >>

FINAL_RESIZE == << 96, 96 >>

\* PushProcessor.create_coloring_book_effect on a uniform RGBA image: the
\* blur keeps the gray level, Canny finds no edge, Otsu with THRESH_BINARY
\* gives 255 where gray > threshold; the inverted, dilated mask paints black,
\* everything else is white; the alpha is binarized at 128
create_coloring_book_effect(img) ==
    LET grays == { p.v : p \in img.px }
        Stroke(v) == LET edges    == 0
                         thresh   == IF v > OtsuThreshold(grays) THEN 255 ELSE 0
                         combined == IF edges = 255 \/ thresh = 255 THEN 255 ELSE 0
                         inverted == 255 - combined
                     IN  inverted > 0
        AlphaMask(a) == IF a > 128 THEN 255 ELSE 0
    IN  Img(img.w, img.h,
            { Pixel(IF Stroke(p.v) THEN 0 ELSE 255, AlphaMask(p.a)) : p \in img.px })

\* mutant of create_push_notification: the background is removed whether or
\* not the flag is set
create_push_notification_RemoveAlways(f, rb) ==
    IF Push_validate_file(f).raised
    THEN Failure(Push_validate_file(f).error, << "validate_file" >>)
    ELSE IF ~ f.decodable
    THEN Failure("cannot identify image file", << "validate_file", "open" >>)
    ELSE IF Push_validate_dimensions(f.w, f.h).raised
    THEN Failure(Push_validate_dimensions(f.w, f.h).error,
                 << "validate_file", "open", "convert", "validate_dimensions" >>)
    ELSE
        LET img          == Resize(Img(f.w, f.h, { Pixel(f.v, f.a) }), INTERMEDIATE_RESIZE)
            bgr          == CvImg(img.w, img.h, 3, { Pixel(p.v, 255) : p \in img.px })
            has_white_bg == detect_white_background(bgr)
            removed_bg   == remove_background_image(bgr)
            img2         == IF has_white_bg
                            THEN Img(removed_bg.w, removed_bg.h, removed_bg.px)
                            ELSE img
            processed    == create_coloring_book_effect(img2)
            final        == Resize(processed, FINAL_RESIZE)
        IN  [ raised |-> FALSE, error |-> "",
              steps  |-> << "validate_file", "open", "convert", "validate_dimensions",
                            "resize" >>
                         \o (IF rb THEN << "detect_white_background" >> ELSE << >>)
                         \o (IF has_white_bg THEN << "remove_background" >> ELSE << >>)
                         \o << "stylize", "resize", "save" >>,
              out    |-> final,
              fit    |-> NoFit ]

\* PushProcessor.create_push_notification(input_path, output_path, remove_background)
create_push_notification(f, rb) ==
    IF Push_validate_file(f).raised
    THEN Failure(Push_validate_file(f).error, << "validate_file" >>)
    ELSE IF ~ f.decodable
    THEN Failure("cannot identify image file", << "validate_file", "open" >>)
    ELSE IF Push_validate_dimensions(f.w, f.h).raised
    THEN Failure(Push_validate_dimensions(f.w, f.h).error,
                 << "validate_file", "open", "convert", "validate_dimensions" >>)
    ELSE
        LET img          == Resize(Img(f.w, f.h, { Pixel(f.v, f.a) }), INTERMEDIATE_RESIZE)
            bgr          == CvImg(img.w, img.h, 3, { Pixel(p.v, 255) : p \in img.px })
            has_white_bg == rb /\ detect_white_background(bgr)
            removed_bg   == remove_background_image(bgr)
            img2         == IF has_white_bg
                            THEN Img(removed_bg.w, removed_bg.h, removed_bg.px)
                            ELSE img
            processed    == create_coloring_book_effect(img2)
            final        == Resize(processed, FINAL_RESIZE)
        IN  [ raised |-> FALSE, error |-> "",
              steps  |-> << "validate_file", "open", "convert", "validate_dimensions",
                            "resize" >>
                         \o (IF rb THEN << "detect_white_background" >> ELSE << >>)
                         \o (IF has_white_bg THEN << "remove_background" >> ELSE << >>)
                         \o << "stylize", "resize", "save" >>,
              out    |-> final,
              fit    |-> NoFit ]

\* the sum of term[c] over the cells of S
RECURSIVE SumCells(_, _)
SumCells(term, S) ==
    IF S = {} THEN 0
    ELSE LET c == CHOOSE x \in S : TRUE IN term[c] + SumCells(term, S \ { c })

\* PushProcessor.calculate_contrast(image) > CONTRAST_SETTINGS['threshold'].
\* hist_norm has 256 entries that add up to 1, so hist_norm.mean() is 1/256
\* whatever the image, and contrast ** 2 is the sum over the gray levels i of
\* hist_norm[i] * (i - 1/256) ** 2, which over the N pixels of the image is
\* (S2 - S1/128 + N/65536) / N with S1 the sum of the gray levels and S2 the
\* sum of their squares.  contrast > 0.5 is 128*S2 - S1 > 16383*N/512, and
\* the left side is an integer.
PushProcessor_high_contrast(a) ==
    LET N  == Cardinality(Cells(a))
        S1 == SumCells(a.gray, Cells(a))
        S2 == SumCells([ c \in Cells(a) |-> a.gray[c] * a.gray[c] ], Cells(a))
    IN  128 * S2 - S1 > (16383 * N) \div 512

\* the blur and edge parameters create_coloring_book_effect selects:
\* sigma (in tenths) for cv2.GaussianBlur and the two thresholds of cv2.Canny
PushProcessor_parameters(a) ==
    LET high_contrast == PushProcessor_high_contrast(a)
    IN  [ high_contrast |-> high_contrast,
          sigma10       |-> IF high_contrast THEN 5 ELSE 10,
          thresholds    |-> IF high_contrast THEN << 50, 150 >> ELSE << 30, 100 >> ]

\* mutant of PushProcessor_create_coloring_book_effect: an alpha of exactly
\* 128 counts as opaque
PushProcessor_create_coloring_book_effect_From128(a, dilated) ==
    IF a.ch = 1
    THEN Propagated("IndexError: tuple index out of range", << "alpha" >>)
    ELSE
        LET alpha      == IF a.ch = 4 THEN a.alpha ELSE Opaque(a)
            result     == [ c \in Cells(a) |-> IF dilated[c] > 0 THEN 0 ELSE 255 ]
            alpha_mask == [ c \in Cells(a) |-> IF alpha[c] >= 128 THEN 255 ELSE 0 ]
        IN  Returned(Array(a.w, a.h, 4, result, alpha_mask),
                     << "alpha", "mask", "result", "alpha_mask" >>)

\* PushProcessor.create_coloring_book_effect on an array given pixel by
\* pixel (RGB for ch = 3, RGBA for ch = 4).  dilated: normal_text_dilated,
\* the mask the blur, Canny, Otsu, inversion and dilation of lines 158-192
\* compute for the image.
PushProcessor_create_coloring_book_effect(a, dilated) ==
    IF a.ch = 1
    THEN Propagated("IndexError: tuple index out of range", << "alpha" >>)
    ELSE
        LET alpha      == IF a.ch = 4 THEN a.alpha ELSE Opaque(a)
            result     == [ c \in Cells(a) |-> IF dilated[c] > 0 THEN 0 ELSE 255 ]
            alpha_mask == [ c \in Cells(a) |-> IF alpha[c] > 128 THEN 255 ELSE 0 ]
        IN  Returned(Array(a.w, a.h, 4, result, alpha_mask),
                     << "alpha", "mask", "result", "alpha_mask" >>)

----------------------------------------------------------------------------
(* ImageProcessingService (services/image_processing_service.py) *)

\* self.formats = BaseImageProcessor.FORMAT_CONFIGS
service_formats == Base_FORMAT_CONFIGS

\* the keyword arguments __init__ passes to PushProcessor
service_push_kwargs == { "background_remover" }

\* the keyword arguments _process_single_format passes to process_image on
\* the background-removed branches
service_process_image_kwargs ==
    { "input_path", "output_path", "width", "height", "bg_color", "img_pil" }

\* ImageProcessingService.__init__: "constructed", or "raised" when the
\* PushProcessor constructor rejects a keyword argument
service_init == IF service_push_kwargs \subseteq PushProcessor_init_params
                THEN "constructed" ELSE "raised"

\* output_path = output_dir / f"{format_name}.PNG", relative to output_dir
OutputPath(format_name) == format_name \o ".PNG"

\* the paths the eight catalogue identifiers are written to
OutputPaths == { OutputPath(f) : f \in FormatIds }

\* what a write that stopped part-way leaves at a path: the first bytes of a
\* PNG stream, which no decoder reads as an image
PartialFile == [ w |-> 0, h |-> 0, px |-> {}, truncated |-> TRUE ]

\* PIL Image.save(output_path, 'PNG', ...), the last statement of
\* process_image and of create_push_notification: the file is opened with
\* mode "w+b", which fails when the directory is absent and empties a file
\* that is already there, and the encoded stream is written to it.
\* io_error: the write fails part-way (disk full, I/O error).  A PIL that
\* created the file removes it again on such a failure, an older PIL leaves
\* it; a file that was there before stays as far as it was written.
\* The operator gives the set of outcomes [raised, error, file].
Image_save(img, old, dir, io_error) ==
    IF ~ dir
    THEN { [ raised |-> TRUE, error |-> "No such file or directory", file |-> old ] }
    ELSE IF io_error
    THEN { [ raised |-> TRUE, error |-> "No space left on device", file |-> PartialFile ] }
         \cup (IF old = NoFile
               THEN { [ raised |-> TRUE, error |-> "No space left on device",
                        file |-> NoFile ] }
               ELSE {})
    ELSE { [ raised |-> FALSE, error |-> "", file |-> img ] }

Success(format_name) ==
    [ format |-> format_name, status |-> "success", output_path |-> OutputPath(format_name) ]

\* mutant of Failed: the record of a failure names an output path as well
Failed_WithPath(format_name, msg) ==
    [ format |-> format_name, status |-> "failed", error |-> msg,
      output_path |-> OutputPath(format_name) ]

Failed(format_name, msg) ==
    [ format |-> format_name, status |-> "failed", error |-> msg ]

\* the steps of _process_single_format that resize a background-removed image
\* (lines 126-140, 148-162, 170-184)
process_removed(format_name, f) ==
    IF format_name \notin DOMAIN service_formats
    THEN Failure("KeyError", << >>)
    ELSE LET config == service_formats[format_name]
             r      == process_image(service_process_image_kwargs, f,
                                     config.size[1], config.size[2], config.bg_color)
         IN  [ r EXCEPT !.steps = << "convert_cv_to_pil" >> \o r.steps ]

\* mutant of process_single_format_run: the remover is asked for every format
\* when the flag is set
process_single_format_run_AnyFormat(f, format_name, rb) ==
    IF format_name = "PUSH"
    THEN create_push_notification(f, rb)
    ELSE IF ~ (f.exists /\ f.decodable)
    THEN Failure("Failed to load image", << "imread" >>)
    ELSE
        LET img                   == CvImg(f.w, f.h, 3, { Pixel(f.v, 255) })
            supports_transparency == format_name \in { "LOGO", "LOGO_WIDE", "APPICON" }
            gate                  == rb
            has_white_bg          == gate /\ detect_white_background(img)
            pre                   == << "imread" >>
                                     \o (IF gate THEN << "detect_white_background" >> ELSE << >>)
                                     \o (IF has_white_bg THEN << "remove_background" >> ELSE << >>)
            r == IF format_name = "LOGO_WIDE"
                 THEN IF rb /\ has_white_bg THEN process_removed(format_name, f)
                                            ELSE process_logo(f, TRUE)
                 ELSE IF format_name = "LOGO"
                 THEN IF rb /\ has_white_bg THEN process_removed(format_name, f)
                                            ELSE process_logo(f, FALSE)
                 ELSE IF format_name = "APPICON" /\ rb /\ has_white_bg
                      THEN process_removed(format_name, f)
                      ELSE process_format(f, format_name)
        IN  [ r EXCEPT !.steps = pre \o r.steps ]

\* ImageProcessingService._process_single_format: the call a format ends in,
\* with the steps executed before it
process_single_format_run(f, format_name, rb) ==
    IF format_name = "PUSH"
    THEN create_push_notification(f, rb)
    ELSE IF ~ (f.exists /\ f.decodable)
    THEN Failure("Failed to load image", << "imread" >>)
    ELSE
        LET img                   == CvImg(f.w, f.h, 3, { Pixel(f.v, 255) })
            supports_transparency == format_name \in { "LOGO", "LOGO_WIDE", "APPICON" }
            gate                  == rb /\ supports_transparency
            has_white_bg          == gate /\ detect_white_background(img)
            pre                   == << "imread" >>
                                     \o (IF gate THEN << "detect_white_background" >> ELSE << >>)
                                     \o (IF has_white_bg THEN << "remove_background" >> ELSE << >>)
            r == IF format_name = "LOGO_WIDE"
                 THEN IF rb /\ has_white_bg THEN process_removed(format_name, f)
                                            ELSE process_logo(f, TRUE)
                 ELSE IF format_name = "LOGO"
                 THEN IF rb /\ has_white_bg THEN process_removed(format_name, f)
                                            ELSE process_logo(f, FALSE)
                 ELSE IF format_name = "APPICON" /\ rb /\ has_white_bg
                      THEN process_removed(format_name, f)
                      ELSE process_format(f, format_name)
        IN  [ r EXCEPT !.steps = pre \o r.steps ]

\* the result record of a run that ended before its save, for the file old
\* at the output path
EndedBeforeSave(format_name, r, old) ==
    [ result |-> Failed(format_name, r.error), steps |-> r.steps, file |-> old ]

\* the result record and the file at the output path after the save s
EndedInSave(format_name, r, s) ==
    [ result |-> IF s.raised THEN Failed(format_name, s.error) ELSE Success(format_name),
      steps  |-> r.steps,
      file   |-> s.file ]

\* ImageProcessingService._process_single_format: the possible outcomes
\* [result, steps, file]: the result record returned, the steps executed and
\* the file at output_path afterwards.  old is the file at output_path
\* before the call, dir tells whether output_dir exists.
process_single_format(f, format_name, rb, old, dir, io_error) ==
    UNION { IF r.raised
            THEN { EndedBeforeSave(format_name, r, old) }
            ELSE { EndedInSave(format_name, r, s) :
                     s \in Image_save(r.out, old, dir, io_error) } :
              r \in { process_single_format_run(f, format_name, rb) } }

----------------------------------------------------------------------------
(* Direct calls of the canvas-fit resizer: specification SpecFit           *)

NoCall == [ op |-> "none", format |-> "", target |-> << 0, 0 >>,
            ret |-> Failure("", << >>) ]

\* BackgroundRemover not constructed yet
NoRemover == [ method |-> "unconstructed" ]

\* no array handed to the remover or the stylizer, no remover constructed
IdlePixels ==
    /\ ndarray = NoArray
    /\ remover = NoRemover

\* no ImageProcessingWorker created
NoWorker ==
    [ pc |-> "none", formats |-> << >>, remove_background |-> FALSE,
      is_cancelled |-> FALSE, i |-> 0, results |-> << >>, emitted |-> << >>,
      started |-> << >>, observed |-> FALSE, started_cancelled |-> FALSE,
      cancel_pc |-> "none", total_formats |-> 0, it_used |-> 0, it_pos |-> 0 ]

\* no worker and no side-by-side calls
IdleThreads ==
    /\ worker = NoWorker
    /\ jobs = << >>

\* MainWindow.__init__ (self.thread = None, self.worker = None) before the
\* FormatSelector is filled: selected is FormatSelector.selected, order the
\* order in which the hash table of that set holds the format names,
\* process_button tells whether the Process button is shown (the Cancel
\* button is shown when it is not), threads holds the state of every QThread
\* created, the last one being self.thread, worker_obj the state of
\* self.worker.  at_start, stale and raised record the history: the selection
\* when the last job was started, the calls made on objects already scheduled
\* for deletion and the exceptions raised in handlers of the window.
\* clicks_left and runs_left are the checkbox clicks and the jobs the
\* behaviour still has to come.
NoWindow ==
    [ selected |-> {}, order |-> << >>, process_button |-> TRUE, threads |-> << >>,
      worker_obj |-> "none", at_start |-> {}, stale |-> {}, raised |-> {},
      closed |-> FALSE, clicks_left |-> 0, runs_left |-> 0 ]

\* no window opened
IdleWindow ==
    /\ window = NoWindow
    /\ signals = << >>

\* the state in which no batch has been started
IdleBatch ==
    /\ service = "unconstructed"
    /\ pc = "idle"
    /\ selected_formats = {}
    /\ remove_background = FALSE
    /\ pending = {}
    /\ results = << >>
    /\ files = [ p \in OutputPaths |-> NoFile ]
    /\ dir_exists = FALSE
    /\ steps = [ f \in FormatIds |-> << >> ]

\* the target sizes of the catalogue
TargetSizes == { IP_FORMAT_CONFIGS[f].size : f \in DOMAIN IP_FORMAT_CONFIGS }
               \cup { Base_FORMAT_CONFIGS[f].size : f \in DOMAIN Base_FORMAT_CONFIGS }

FileSizes == { 1000, IP_max_file_size, IP_max_file_size + 1 }

\* files of every combination of the attributes validation looks at
FileVariants ==
    { File(e, s, sz, d, wh[1], wh[2], v, 255) :
        e \in BOOLEAN, s \in Suffixes, sz \in FileSizes, d \in BOOLEAN,
        wh \in { << 500, 500 >>, << 89, 500 >>, << 500, 5001 >> }, v \in { 255, 0 } }

FitInit ==
    /\ src \in { PngFile(w, h, 255) : w \in Sizes, h \in Sizes } \cup FileVariants
    /\ call = NoCall
    /\ IdleBatch
    /\ IdlePixels
    /\ IdleThreads
    /\ IdleWindow

\* image_processor.calculate_dimensions(img.size, target)
CallCalculateDimensions(target) ==
    /\ src.decodable
    /\ call' = [ op |-> "calculate_dimensions", format |-> "", target |-> target,
                 ret |-> [ raised |-> FALSE, error |-> "",
                           steps |-> << "calculate_dimensions" >>, out |-> NoFile,
                           fit |-> [ new_size |-> calculate_dimensions(<< src.w, src.h >>, target),
                                     left |-> 0, top |-> 0 ] ] ]
    /\ UNCHANGED << src, batchVars, pixelVars, threadVars, uiVars >>

\* image_processor.process_format(input_path, output_path, format_name)
CallProcessFormat(format_name) ==
    /\ call' = [ op |-> "process_format", format |-> format_name,
                 target |-> IF format_name \in DOMAIN IP_FORMAT_CONFIGS
                            THEN IP_FORMAT_CONFIGS[format_name].size ELSE << 0, 0 >>,
                 ret |-> process_format(src, format_name) ]
    /\ UNCHANGED << src, batchVars, pixelVars, threadVars, uiVars >>

\* push_processor.create_push_notification(input_path, output_path, rb)
CallCreatePushNotification(rb) ==
    /\ call' = [ op |-> "create_push_notification", format |-> "PUSH",
                 target |-> FINAL_RESIZE,
                 ret |-> create_push_notification(src, rb) ]
    /\ UNCHANGED << src, batchVars, pixelVars, threadVars, uiVars >>

\* what a method of the service that only reads self.formats returns
Answered(value) ==
    [ raised |-> FALSE, error |-> "", steps |-> << >>, out |-> NoFile, fit |-> NoFit,
      value |-> value ]

\* ImageProcessingService.validate_format(format_name)
validate_format(format_name) == format_name \in DOMAIN service_formats

\* ImageProcessingService.get_available_formats()
get_available_formats == service_formats

\* service.validate_format(format_name)
CallValidateFormat(format_name) ==
    /\ call' = [ op |-> "validate_format", format |-> format_name, target |-> << 0, 0 >>,
                 ret |-> Answered(validate_format(format_name)) ]
    /\ UNCHANGED << src, batchVars, pixelVars, threadVars, uiVars >>

\* service.get_available_formats()
CallGetAvailableFormats ==
    /\ call' = [ op |-> "get_available_formats", format |-> "", target |-> << 0, 0 >>,
                 ret |-> Answered(get_available_formats) ]
    /\ UNCHANGED << src, batchVars, pixelVars, threadVars, uiVars >>

FitNext ==
    \/ \E target \in TargetSizes : CallCalculateDimensions(target)
    \/ \E format_name \in FormatIds : CallProcessFormat(format_name)
    \/ \E rb \in BOOLEAN : CallCreatePushNotification(rb)
    \/ \E format_name \in FormatIds \cup { "ICON" } : CallValidateFormat(format_name)
    \/ CallGetAvailableFormats

SpecFit == FitInit /\ [][FitNext]_vars

----------------------------------------------------------------------------
(* Direct calls of the background remover and of the stylizer:             *)
(* specification SpecPixels                                                *)

\* width and height of the arrays: 5x2 has ten border cells and nothing
\* else, 3x3 has a cell inside, 1x6 and 6x1 are one pixel wide or high
Shapes == { << 5, 2 >>, << 3, 3 >>, << 1, 6 >>, << 6, 1 >> }

\* the sets of dark cells of an n-cell array: up to MaxDark cells, or all
DarkSets(n) == { D \in SUBSET (1..n) : Cardinality(D) <= MaxDark } \cup { 1..n }

\* gray levels on either side of the threshold 240
GrayOf(D, n) == [ c \in 1..n |-> IF c \in D THEN 239 ELSE 240 ]

\* alpha values around the stylizer's threshold 128, cell by cell
AlphaCycle == << 0, 127, 128, 129, 255 >>

MixedAlpha(n) == [ c \in 1..n |-> AlphaCycle[(c % 5) + 1] ]

\* the grayscale (2-D), BGR, opaque BGRA and alpha-varying BGRA array of
\* size w x h with the dark cells D
ArraysOf(w, h, D) ==
    { Array(w, h, 1, GrayOf(D, w * h), [ c \in 1..(w * h) |-> 255 ]),
      Array(w, h, 3, GrayOf(D, w * h), [ c \in 1..(w * h) |-> 255 ]),
      Array(w, h, 4, GrayOf(D, w * h), [ c \in 1..(w * h) |-> 255 ]),
      Array(w, h, 4, GrayOf(D, w * h), MixedAlpha(w * h)) }

InputArrays ==
    UNION { UNION { ArraysOf(s[1], s[2], D) : D \in DarkSets(s[1] * s[2]) } : s \in Shapes }

\* no source file is involved in a direct call on an array
NoSource == File(FALSE, "", 0, FALSE, 0, 0, 0, 0)

\* the masks handed to a call as what OpenCV computes: nothing kept,
\* everything kept, the dark cells kept
Masks(a) ==
    { [ c \in Cells(a) |-> 0 ],
      [ c \in Cells(a) |-> 255 ],
      [ c \in Cells(a) |-> IF a.gray[c] < 240 THEN 255 ELSE 0 ] }

PixelsInit ==
    /\ ndarray \in InputArrays
    /\ remover = NoRemover
    /\ src = NoSource
    /\ call = NoCall
    /\ IdleBatch
    /\ IdleThreads
    /\ IdleWindow

\* the names a caller selects a removal method by: the members of
\* RemovalMethod, the sixth variant "neural_network", and "default" for a
\* construction without argument
SelectableNames == RemovalMethod \cup { "neural_network", "default" }

\* BackgroundRemover(RemovalMethod(name)) / BackgroundRemover(): a name that
\* is no member of the enumeration raises before __init__ is entered
ConstructRemover(name) ==
    /\ remover = NoRemover
    /\ IF name = "default"
       THEN /\ remover' = [ method |-> BackgroundRemover_init_default ]
            /\ call' = [ op |-> "BackgroundRemover", format |-> name, target |-> << 0, 0 >>,
                         ret |-> Returned(NoArray, << "__init__" >>) ]
       ELSE IF name \in RemovalMethod
       THEN /\ remover' = [ method |-> name ]
            /\ call' = [ op |-> "BackgroundRemover", format |-> name, target |-> << 0, 0 >>,
                         ret |-> Returned(NoArray, << "__init__" >>) ]
       ELSE /\ remover' = remover
            /\ call' = [ op |-> "BackgroundRemover", format |-> name, target |-> << 0, 0 >>,
                         ret |-> Propagated("ValueError: not a valid RemovalMethod", << >>) ]
    /\ UNCHANGED << src, batchVars, ndarray, threadVars, uiVars >>

\* remover.remove_background(ndarray)
CallRemoveBackground(fault, mask) ==
    /\ remover # NoRemover
    /\ call' = [ op |-> "remove_background", format |-> remover.method, target |-> mask,
                 fault |-> fault,
                 ret |-> BackgroundRemover_remove_background(remover, ndarray, fault, mask) ]
    /\ UNCHANGED << src, batchVars, pixelVars, threadVars, uiVars >>

\* remover.remove_background(out) for the array out the call before has
\* returned.  The OpenCV calls of the gate and of the strategies read the
\* colour channels only (cv2.cvtColor with BGR2GRAY or BGR2HSV drops a fourth
\* channel), so on an array with the colours of ndarray they compute the mask
\* and meet the fault of the call before.
CallRemoveBackgroundAgain(fault, mask) ==
    /\ remover # NoRemover
    /\ call.op = "remove_background"
    /\ ~ call.ret.raised
    /\ call.ret.out.gray = ndarray.gray => fault = call.fault /\ mask = call.target
    /\ call' = [ op |-> "remove_background_again", format |-> remover.method,
                 target |-> mask, fault |-> fault, first |-> call.ret.out,
                 ret |-> BackgroundRemover_remove_background(remover, call.ret.out,
                                                             fault, mask) ]
    /\ UNCHANGED << src, batchVars, pixelVars, threadVars, uiVars >>

\* push_processor.create_coloring_book_effect(Image.fromarray(ndarray))
CallCreateColoringBookEffect(dilated) ==
    /\ ndarray # NoArray
    /\ call' = [ op |-> "create_coloring_book_effect", format |-> "", target |-> dilated,
                 parameters |-> IF ndarray.ch = 1 THEN << >>
                                ELSE PushProcessor_parameters(ndarray),
                 ret |-> PushProcessor_create_coloring_book_effect(ndarray, dilated) ]
    /\ UNCHANGED << src, batchVars, pixelVars, threadVars, uiVars >>

PixelsNext ==
    \/ \E name \in SelectableNames : ConstructRemover(name)
    \/ \E fault \in { "none", "gate", "strategy" }, mask \in Masks(ndarray) :
          CallRemoveBackground(fault, mask)
    \/ \E fault \in { "none", "gate", "strategy" }, mask \in Masks(ndarray) :
          CallRemoveBackgroundAgain(fault, mask)
    \/ \E dilated \in Masks(ndarray) : CallCreateColoringBookEffect(dilated)

SpecPixels == PixelsInit /\ [][PixelsNext]_vars

----------------------------------------------------------------------------
(* Claims about the canvas-fit resizer *)

\* the size the catalogue of the specification lists for each identifier
CatalogueSize(f) ==
    CASE f \in { "APPICON", "LOGO" }            -> << 1024, 1024 >>
      [] f \in { "LOGO_WIDE", "FEATURE_GRAPHIC" } -> << 1024, 500 >>
      [] f = "DEFAULT"                          -> << 1242, 1902 >>
      [] f = "DEFAULT_LG"                       -> << 1242, 2208 >>
      [] f = "DEFAULT_XL"                       -> << 1242, 2688 >>
      [] f = "PUSH"                             -> << 96, 96 >>

\* the background the catalogue of the specification lists: transparent,
\* or opaque white
CatalogueBackground(f) ==
    IF f \in { "APPICON", "LOGO", "LOGO_WIDE" } THEN << 0, 0, 0, 0 >>
                                                ELSE << 255, 255, 255, 255 >>

\* C13: each of the eight catalogue identifiers is known to the service with
\* the size and background listed: validate_format is true for it,
\* get_available_formats contains it, and the catalogue of the service and
\* the catalogue of the resizer give it the same size and background (the
\* background of PUSH, a glyph on transparency, is compared between the two
\* catalogues only).
C13_CatalogueKnown ==
    /\ (call.op = "validate_format" /\ call.format \in FormatIds) => call.ret.value
    /\ call.op = "get_available_formats"
          => \A f \in FormatIds :
                /\ f \in DOMAIN call.ret.value
                /\ call.ret.value[f].size = CatalogueSize(f)
                /\ f # "PUSH" => call.ret.value[f].bg_color = CatalogueBackground(f)
                /\ f \in DOMAIN IP_FORMAT_CONFIGS
                /\ IP_FORMAT_CONFIGS[f] = call.ret.value[f]

\* both sides of the source lie in 90..5000
ValidSize(w, h) == w \in 90..5000 /\ h \in 90..5000

Abs(x) == IF x < 0 THEN -x ELSE x

\* C1: for every catalogue format and every source, of whatever aspect ratio,
\* an image process_format produces has exactly the format's catalogue size.
C1_OutputHasTargetSize ==
    (call.op = "process_format" /\ ~ call.ret.raised)
        => /\ ValidSize(src.w, src.h)
           /\ << call.ret.out.w, call.ret.out.h >> = CatalogueSize(call.format)

\* C1 witness: a 2000x800 source has been fitted onto DEFAULT, the scaled
\* image being larger than the canvas.
C1_Witness ==
    /\ call.op = "process_format" /\ call.format = "DEFAULT"
    /\ src.w = 2000 /\ src.h = 800
    /\ ~ call.ret.raised
    /\ call.ret.fit.new_size # << 1242, 1902 >>
    /\ << call.ret.out.w, call.ret.out.h >> = << 1242, 1902 >>

\* C2: the scaled size fits inside the target: new_w <= tw and new_h <= th,
\* with equality in at least one dimension.
C2_ScaledSizeFitsInside ==
    call.op = "calculate_dimensions"
        => LET new_w == call.ret.fit.new_size[1]
               new_h == call.ret.fit.new_size[2]
           IN  /\ new_w <= call.target[1]
               /\ new_h <= call.target[2]
               /\ (new_w = call.target[1] \/ new_h = call.target[2])

C7_Accepted(f) ==
    /\ f.exists
    /\ Lower(f.suffix) \in { ".png", ".jpg", ".jpeg", ".gif", ".bmp", ".tiff", ".jfif" }
    /\ f.st_size <= 50 * 1024 * 1024
    /\ f.w >= 90 /\ f.w <= 5000
    /\ f.h >= 90 /\ f.h <= 5000

\* C7: on the canvas-fit path and on the PUSH path alike, a source passes
\* validation exactly when it exists, has an allowed extension, at most 50MB
\* and both sides in 90..5000.
C7_ValidationPredicate ==
    (\/ call.op = "process_format" /\ call.format \in DOMAIN IP_FORMAT_CONFIGS
     \/ call.op = "create_push_notification")
        => (~ call.ret.raised <=> C7_Accepted(src))

\* C7 witness: the PUSH path has accepted a 90x5000 source, both bounds
\* being met exactly.
C7_Witness ==
    /\ call.op = "create_push_notification"
    /\ src.w = 90 /\ src.h = 5000
    /\ ~ call.ret.raised

----------------------------------------------------------------------------
(* The batch orchestrator: specification Spec                              *)
(* The methods of ImageProcessingService are run on a receiver that has    *)
(* the fields __init__ assigns (lines 20-25); what __init__ itself does is *)
(* the action ServiceInit, and no batch is started on a service whose      *)
(* constructor has raised.                                                 *)

\* the source files of the batch runs
BatchSources ==
    { File(FALSE, ".png", 0, FALSE, 0, 0, 0, 0),          \* no such file
      File(TRUE, ".png", 25, FALSE, 0, 0, 0, 0),          \* not an image
      File(TRUE, ".txt", 1000, TRUE, 500, 500, 255, 255), \* extension not allowed
      File(TRUE, ".PNG", 1000, TRUE, 500, 500, 255, 255),
      File(TRUE, ".png", IP_max_file_size + 1, TRUE, 500, 500, 255, 255),
      PngFile(32, 32, 255),
      PngFile(5001, 500, 255),
      PngFile(500, 500, 255),
      PngFile(500, 500, 76),
      PngFile(500, 500, 0),
      PngFile(2000, 800, 255),
      PngFile(199, 100, 240) }

Init ==
    /\ src \in BatchSources
    /\ call = NoCall
    /\ IdleBatch
    /\ IdlePixels
    /\ IdleThreads
    /\ IdleWindow

\* ImageProcessingService() -- __init__, lines 18-25
ServiceInit ==
    /\ service = "unconstructed"
    /\ pc = "idle"
    /\ service' = service_init
    /\ UNCHANGED << src, pc, selected_formats, remove_background, pending, results,
                    files, dir_exists, steps, call, pixelVars, threadVars, uiVars >>

\* process_batch, lines 40-49: the is_file check, mkdir, results = []
ProcessBatchStart(formats, rb) ==
    /\ pc = "idle"
    /\ service # "raised"
    /\ selected_formats' = formats
    /\ remove_background' = rb
    /\ IF ~ src.exists
       THEN /\ pc' = "raised"
            /\ UNCHANGED << pending, dir_exists, uiVars >>
       ELSE /\ pc' = "loop"
            /\ pending' = formats
            /\ dir_exists' = TRUE
    /\ results' = << >>
    /\ UNCHANGED << src, service, files, steps, call, pixelVars, threadVars, uiVars >>

\* mutant of ProcessBatchStep: a format that fails leaves no record
ProcessBatchStep_DropFailed ==
    /\ pc = "loop"
    /\ \E format_name \in pending :
         \E r \in process_single_format(src, format_name, remove_background,
                                        files[OutputPath(format_name)], dir_exists, FALSE) :
             /\ results' = IF r.result.status = "success"
                           THEN Append(results, r.result) ELSE results
             /\ steps' = [ steps EXCEPT ![format_name] = r.steps ]
             /\ files' = [ files EXCEPT ![OutputPath(format_name)] = r.file ]
             /\ pending' = pending \ { format_name }
    /\ UNCHANGED << src, service, pc, selected_formats, remove_background, dir_exists, call,
                    pixelVars, threadVars, uiVars >>

\* process_batch, lines 50-52: one iteration of the for-loop
ProcessBatchStep ==
    /\ pc = "loop"
    /\ \E format_name \in pending :
         \E r \in process_single_format(src, format_name, remove_background,
                                        files[OutputPath(format_name)], dir_exists, FALSE) :
             /\ results' = Append(results, r.result)
             /\ steps' = [ steps EXCEPT ![format_name] = r.steps ]
             /\ files' = [ files EXCEPT ![OutputPath(format_name)] = r.file ]
             /\ pending' = pending \ { format_name }
    /\ UNCHANGED << src, service, pc, selected_formats, remove_background, dir_exists, call,
                    pixelVars, threadVars, uiVars >>

\* process_batch, lines 54-55: return results
ProcessBatchReturn ==
    /\ pc = "loop"
    /\ pending = {}
    /\ pc' = "returned"
    /\ UNCHANGED << src, service, selected_formats, remove_background, pending, results,
                    files, dir_exists, steps, call, pixelVars, threadVars, uiVars >>

Next ==
    \/ ServiceInit
    \/ \E formats \in { F \in SUBSET FormatIds : Cardinality(F) <= MaxFormats },
          rb \in BOOLEAN : ProcessBatchStart(formats, rb)
    \/ ProcessBatchStep
    \/ ProcessBatchReturn

Spec == Init /\ [][Next]_vars

----------------------------------------------------------------------------
(* Claims about the batch orchestrator *)

ResultIndices == 1..Len(results)

ResultOf(f) == CHOOSE r \in { results[i] : i \in ResultIndices } : r.format = f

HasResult(f) == \E i \in ResultIndices : results[i].format = f

C5_ConstructedAndAllSucceed ==
    /\ service # "raised"
    /\ (pc = "returned" /\ C7_Accepted(src) /\ ~ remove_background)
          => \A i \in ResultIndices :
                /\ results[i].status = "success"
                /\ << files[OutputPath(results[i].format)].w, files[OutputPath(results[i].format)].h >>
                       = CatalogueSize(results[i].format)

\* C6: for a source that fails validation process_batch does not raise; it
\* returns a failed record for every requested format and no success record.
C6_InvalidSourceAllFailed ==
    (~ C7_Accepted(src) /\ pc # "idle")
        => /\ pc # "raised"
           /\ \A i \in ResultIndices : results[i].status = "failed"
           /\ pc = "returned" => \A f \in selected_formats : HasResult(f)

\* the steps the claim calls pixel processing
PixelSteps == { "detect_white_background", "remove_background", "convert",
                "resize", "stylize" }

\* C8: no pixel-processing step runs on a source before its dimension
\* validation, and none at all on a source that fails validation.
C8_ValidationBeforePixels ==
    \A f \in FormatIds :
        \A i \in 1..Len(steps[f]) :
            steps[f][i] \in PixelSteps
                => /\ C7_Accepted(src)
                   /\ \E j \in 1..(i - 1) : steps[f][j] = "validate_dimensions"

\* C9: with remove_background set and a valid source with a white border,
\* LOGO, LOGO_WIDE and APPICON end in Success with an output of the format's
\* size.
C9_RemovedBackgroundSucceeds ==
    \A i \in ResultIndices :
        (/\ results[i].format \in { "LOGO", "LOGO_WIDE", "APPICON" }
         /\ remove_background
         /\ C7_Accepted(src)
         /\ src.v >= 240)
            => /\ results[i].status = "success"
               /\ << files[OutputPath(results[i].format)].w, files[OutputPath(results[i].format)].h >>
                      = CatalogueSize(results[i].format)

\* C10: every successful PUSH output is 96x96 and holds a fully transparent
\* pixel, a fully opaque pixel, a pure-white pixel and a pure-black pixel.
C10_PushGlyphPixels ==
    (HasResult("PUSH") /\ ResultOf("PUSH").status = "success")
        => /\ << files[OutputPath("PUSH")].w, files[OutputPath("PUSH")].h >> = << 96, 96 >>
           /\ \E p \in files[OutputPath("PUSH")].px : p.a = 0
           /\ \E p \in files[OutputPath("PUSH")].px : p.a = 255
           /\ \E p \in files[OutputPath("PUSH")].px : p.v = 255
           /\ \E p \in files[OutputPath("PUSH")].px : p.v = 0

----------------------------------------------------------------------------
(* Claims about the background remover and the stylizer *)

\* an exception was caught at the remove_background boundary
Thrown(st) == \E i \in 1..Len(st) : st[i] = "except"

\* the gate itself threw
GateThrew(st) == Len(st) >= 2 /\ st[2] = "except"

\* out has the width, height and colours of a and alpha 255 at every pixel
IsOpaqueCopy(out, a) ==
    /\ out.w = a.w /\ out.h = a.h
    /\ out.gray = a.gray
    /\ \A c \in Cells(a) : out.alpha[c] = 255

\* C11: for every input image and every removal method remove_background
\* never raises, and when the gate or the strategy throws it returns a
\* buffer with the input's width, height and colours and alpha 255 at every
\* pixel.
C11_RemoveBackgroundNeverRaises ==
    call.op = "remove_background"
        => /\ ~ call.ret.raised
           /\ Thrown(call.ret.steps) => IsOpaqueCopy(call.ret.out, ndarray)

\* the cells of the top row, the bottom row and the left and right columns,
\* each once
BorderCells(a) ==
    { c \in Cells(a) : \/ (c - 1) % a.w \in { 0, a.w - 1 }
                       \/ (c - 1) \div a.w \in { 0, a.h - 1 } }

WhiteBorderCells(a) == { c \in BorderCells(a) : a.gray[c] >= 240 }

\* C12: when the fraction of border pixels (each counted once) with gray
\* value >= 240 is below 0.9, remove_background returns the image with
\* unchanged colours and alpha 255 everywhere and runs no strategy; when the
\* fraction is 0.9 or more it runs the strategy of the selected method.
C12_GateOnBorderFraction ==
    (call.op = "remove_background" /\ ~ GateThrew(call.ret.steps))
        => IF 10 * Cardinality(WhiteBorderCells(ndarray)) < 9 * Cardinality(BorderCells(ndarray))
           THEN /\ ~ call.ret.raised
                /\ IsOpaqueCopy(call.ret.out, ndarray)
                /\ \A i \in 1..Len(call.ret.steps) :
                       call.ret.steps[i] # StrategyOf(remover.method)
           ELSE \E i \in 1..Len(call.ret.steps) :
                    call.ret.steps[i] = StrategyOf(remover.method)

\* the closed set of removal methods of the specification
SpecRemovalMethods ==
    { "contour_detection", "threshold", "chroma_key", "grabcut", "combined",
      "neural_network" }

\* C19: the selectable removal methods are exactly ContourDetection,
\* Threshold, ChromaKey, GrabCut, Combined and NeuralNetwork, a remover
\* constructed without argument uses Combined, and a NeuralNetwork remover
\* whose model fails returns an opaque passthrough.
C19_ClosedMethodSet ==
    /\ (call.op = "BackgroundRemover" /\ call.format = "default")
          => ~ call.ret.raised /\ remover.method = "combined"
    /\ (call.op = "BackgroundRemover" /\ call.format # "default")
          => /\ ~ call.ret.raised <=> call.format \in SpecRemovalMethods
             /\ ~ call.ret.raised => remover.method = call.format
    /\ (call.op = "remove_background" /\ remover.method = "neural_network"
                                       /\ Thrown(call.ret.steps))
          => ~ call.ret.raised /\ IsOpaqueCopy(call.ret.out, ndarray)

\* C20: the stylizer's output has the input's width and height, every pixel
\* is pure black where the dilated mask is nonzero and pure white elsewhere,
\* and its alpha is the input's alpha binarized at 128: 255 where the source
\* alpha is above 128 and 0 elsewhere, 255 everywhere for an input without
\* alpha.
C20_StylizerOutput ==
    (call.op = "create_coloring_book_effect" /\ ~ call.ret.raised)
        => /\ call.ret.out.w = ndarray.w /\ call.ret.out.h = ndarray.h
           /\ \A c \in Cells(ndarray) :
                 /\ call.ret.out.gray[c] = (IF call.target[c] # 0 THEN 0 ELSE 255)
                 /\ call.ret.out.alpha[c] =
                        (IF ndarray.ch = 4
                         THEN (IF ndarray.alpha[c] > 128 THEN 255 ELSE 0)
                         ELSE 255)

\* C20 witness: a BGRA-shaped input whose alpha takes the values 0, 128 and
\* 129 has been stylized with a mask that is nonzero on some cells only; the
\* output is transparent where the alpha was 0 or 128 and opaque where it
\* was 129, black on the mask and white off it.
C20_Witness ==
    /\ call.op = "create_coloring_book_effect" /\ ~ call.ret.raised
    /\ ndarray.ch = 4
    /\ \E c \in Cells(ndarray) : ndarray.alpha[c] = 0 /\ call.ret.out.alpha[c] = 0
    /\ \E c \in Cells(ndarray) : ndarray.alpha[c] = 128 /\ call.ret.out.alpha[c] = 0
    /\ \E c \in Cells(ndarray) : ndarray.alpha[c] = 129 /\ call.ret.out.alpha[c] = 255
    /\ \E c \in Cells(ndarray) : call.target[c] # 0 /\ call.ret.out.gray[c] = 0
    /\ \E c \in Cells(ndarray) : call.target[c] = 0 /\ call.ret.out.gray[c] = 255

----------------------------------------------------------------------------
(* Direct calls of ImageProcessingService.process_single_format:           *)
(* specification SpecSingle                                                *)

\* an output file an earlier run has left in the directory
OldOutput == Img(64, 64, { Pixel(7, 255) })

\* the output directory before the calls: absent, empty, or holding the
\* outputs of an earlier run
SingleInit ==
    /\ src \in BatchSources
    /\ call = NoCall
    /\ service = "unconstructed"
    /\ pc = "idle"
    /\ selected_formats = {}
    /\ remove_background = FALSE
    /\ pending = {}
    /\ results = << >>
    /\ steps = [ f \in FormatIds |-> << >> ]
    /\ \/ dir_exists = FALSE /\ files = [ p \in OutputPaths |-> NoFile ]
       \/ dir_exists = TRUE  /\ files = [ p \in OutputPaths |-> NoFile ]
       \/ dir_exists = TRUE  /\ files = [ p \in OutputPaths |-> OldOutput ]
    /\ IdlePixels
    /\ IdleThreads
    /\ IdleWindow

\* what process_single_format returns, with the directory as it was before
\* the call
SingleReturn(r, before, dir_before) ==
    [ raised |-> FALSE, error |-> "", steps |-> r.steps, out |-> r.file, fit |-> NoFit,
      value |-> r.result, before |-> before, dir_before |-> dir_before ]

\* service.process_single_format(input_path, output_dir, format_name, rb),
\* lines 61-74: the method delegates to _process_single_format and leaves
\* output_dir as it finds it
ProcessSingleFormat(format_name, rb, io_error) ==
    /\ pc = "idle"
    /\ Len(results) < MaxCalls
    /\ \E r \in process_single_format(src, format_name, rb,
                                      files[OutputPath(format_name)], dir_exists, io_error) :
         /\ call' = [ op |-> "process_single_format", format |-> format_name,
                      target |-> << 0, 0 >>, ret |-> SingleReturn(r, files, dir_exists) ]
         /\ results' = Append(results, r.result)
         /\ steps' = [ steps EXCEPT ![format_name] = r.steps ]
         /\ files' = [ files EXCEPT ![OutputPath(format_name)] = r.file ]
    /\ UNCHANGED << src, service, pc, selected_formats, remove_background, pending,
                    dir_exists, pixelVars, threadVars, uiVars >>

SingleNext ==
    \E format_name \in FormatIds, rb \in BOOLEAN, io_error \in BOOLEAN :
        ProcessSingleFormat(format_name, rb, io_error)

SpecSingle == SingleInit /\ [][SingleNext]_vars

----------------------------------------------------------------------------
(* Claims about the files and the records of a format *)

\* the file is a complete image
IsImage(file) == file # NoFile /\ file # PartialFile

\* C14: processing one format f writes exactly one file, at
\* output_dir/<f>.PNG, and creates the output directory if it is absent: after
\* a call the directory exists, a success record names that path and a
\* complete image is there, and no other path of the directory has changed.
C14_OneFileAtFormatPath ==
    call.op = "process_single_format"
        => /\ dir_exists
           /\ call.ret.value.status = "success"
                 => /\ call.ret.value.output_path = OutputPath(call.format)
                    /\ IsImage(files[OutputPath(call.format)])
           /\ \A p \in OutputPaths \ { OutputPath(call.format) } :
                 files[p] = call.ret.before[p]

\* C15: whenever the result of a format is Failed, no partially written
\* file is left at output_dir/<format_id>.PNG.
C15_NoPartialFileOnFailure ==
    (call.op = "process_single_format" /\ call.ret.value.status = "failed")
        => files[OutputPath(call.format)] # PartialFile

----------------------------------------------------------------------------
(* ImageProcessingWorker (utils/worker.py): specification SpecWorker       *)
(* worker holds the fields __init__ assigns (formats, remove_background,   *)
(* is_cancelled), the locals of process (i, results), the list emitted     *)
(* with signals.result, and the position pc of the worker thread inside    *)
(* process: "check" at the head of the for-loop, "processing" inside       *)
(* process_single_format, "emit" after the loop.  started, observed,       *)
(* started_cancelled and cancel_pc record the history: the formats started,*)
(* whether the loop left through the break, whether a format was started   *)
(* with the flag set, and where the worker was when cancel() ran.          *)

\* the formats a worker is given
WorkerFormats == { "DEFAULT", "LOGO", "PUSH" }

\* the orders in which the for-loop can iterate a set of formats
IterationOrders ==
    { q \in UNION { [ 1..n -> WorkerFormats ] : n \in 0..Cardinality(WorkerFormats) } :
        \A a, b \in 1..Len(q) : a # b => q[a] # q[b] }

WorkerSources == { PngFile(500, 500, 255), PngFile(32, 32, 255), PngFile(2000, 800, 0) }

WorkerInit ==
    /\ src \in WorkerSources
    /\ call = NoCall
    /\ IdleBatch
    /\ IdlePixels
    /\ IdleThreads
    /\ IdleWindow

\* ImageProcessingWorker(processor, input_path, output_dir, formats,
\* remove_background) and the start of process in its thread, lines 20-40:
\* results = [], output_dir created
WorkerStart(formats, rb) ==
    /\ worker.pc = "none"
    /\ worker' = [ worker EXCEPT !.pc = "check", !.formats = formats,
                                 !.remove_background = rb, !.is_cancelled = FALSE,
                                 !.i = 1, !.results = << >> ]
    /\ dir_exists' = TRUE
    /\ UNCHANGED << src, service, pc, selected_formats, remove_background, pending,
                    results, files, steps, call, pixelVars, jobs, uiVars >>

\* mutant of WorkerCheck: the loop does not look at is_cancelled
WorkerCheck_IgnoringCancel ==
    /\ worker.pc = "check"
    /\ IF worker.i > Len(worker.formats)
       THEN worker' = [ worker EXCEPT !.pc = "emit" ]
       ELSE worker' = [ worker EXCEPT !.pc = "processing",
                                      !.started = Append(@, worker.formats[worker.i]),
                                      !.started_cancelled = @ \/ worker.is_cancelled ]
    /\ UNCHANGED << src, batchVars, call, pixelVars, jobs, uiVars >>

\* the head of the for-loop, lines 43-45: the next format, or the end of the
\* iteration, or the break when is_cancelled is set
WorkerCheck ==
    /\ worker.pc = "check"
    /\ IF worker.i > Len(worker.formats)
       THEN worker' = [ worker EXCEPT !.pc = "emit" ]
       ELSE IF worker.is_cancelled
       THEN worker' = [ worker EXCEPT !.pc = "emit", !.observed = TRUE ]
       ELSE worker' = [ worker EXCEPT !.pc = "processing",
                                      !.started = Append(@, worker.formats[worker.i]),
                                      !.started_cancelled = @ \/ worker.is_cancelled ]
    /\ UNCHANGED << src, batchVars, call, pixelVars, jobs, uiVars >>

\* the body of the for-loop, lines 48-63: process_single_format for the
\* current format, its result appended
WorkerProcess ==
    /\ worker.pc = "processing"
    /\ \E r \in process_single_format(src, worker.formats[worker.i], worker.remove_background,
                                      files[OutputPath(worker.formats[worker.i])],
                                      dir_exists, FALSE) :
         /\ worker' = [ worker EXCEPT !.pc = "check", !.i = @ + 1,
                                      !.results = Append(@, r.result) ]
         /\ files' = [ files EXCEPT ![OutputPath(worker.formats[worker.i])] = r.file ]
         /\ steps' = [ steps EXCEPT ![worker.formats[worker.i]] = r.steps ]
    /\ UNCHANGED << src, service, pc, selected_formats, remove_background, pending,
                    results, dir_exists, call, pixelVars, jobs, uiVars >>

\* after the loop, lines 66-68: signals.result.emit(results)
WorkerEmit ==
    /\ worker.pc = "emit"
    /\ worker' = [ worker EXCEPT !.pc = "finished", !.emitted = worker.results ]
    /\ UNCHANGED << src, batchVars, call, pixelVars, jobs, uiVars >>

\* MainWindow._cancel_processing in the UI thread, while the worker thread
\* runs: worker.cancel(), lines 74-76
WorkerCancel ==
    /\ worker.pc \in { "check", "processing", "emit" }
    /\ ~ worker.is_cancelled
    /\ worker' = [ worker EXCEPT !.is_cancelled = TRUE, !.cancel_pc = worker.pc ]
    /\ UNCHANGED << src, batchVars, call, pixelVars, jobs, uiVars >>

WorkerNext ==
    \/ \E formats \in IterationOrders, rb \in BOOLEAN : WorkerStart(formats, rb)
    \/ WorkerCheck
    \/ WorkerProcess
    \/ WorkerEmit
    \/ WorkerCancel

SpecWorker == WorkerInit /\ [][WorkerNext]_vars

\* C16: cancellation is cooperative at format-loop granularity: no format is
\* started while the cancel flag is set, once the loop has observed the flag
\* no further format is started, a format in progress when cancel() runs
\* still gets its result, and the list emitted holds exactly the formats
\* started, each once, in iteration order.
C16_CooperativeCancel ==
    /\ ~ worker.started_cancelled
    /\ worker.observed => worker.pc \in { "emit", "finished" }
    /\ worker.started = SubSeq(worker.formats, 1, Len(worker.started))
    /\ Len(worker.results) = Len(worker.started) - (IF worker.pc = "processing" THEN 1 ELSE 0)
    /\ \A k \in 1..Len(worker.results) : worker.results[k].format = worker.started[k]
    /\ worker.pc = "finished"
          => /\ Len(worker.emitted) = Len(worker.started)
             /\ \A k \in 1..Len(worker.emitted) :
                   worker.emitted[k].format = worker.formats[k]

\* C16 witness: cancel() ran while the second of three formats was being
\* processed; that format ran to completion, the third was never started,
\* and the two results were emitted in iteration order.
C16_Witness ==
    /\ worker.pc = "finished"
    /\ worker.cancel_pc = "processing"
    /\ worker.observed
    /\ Len(worker.formats) = 3
    /\ worker.started = SubSeq(worker.formats, 1, 2)
    /\ Len(worker.emitted) = 2
    /\ worker.emitted[2].format = worker.formats[2]

----------------------------------------------------------------------------
(* Per-format calls of one service running side by side: specification     *)
(* SpecPar.  jobs[j] is one call of _process_single_format in a thread of  *)
(* its own; its steps read the source file, the shared BackgroundRemover   *)
(* and the output directory when they are taken.                           *)

ParFormats == { "DEFAULT", "LOGO", "APPICON", "PUSH" }

ParSources == { PngFile(500, 500, 255), PngFile(32, 32, 255), PngFile(2000, 800, 0) }

\* a call that has not started: format_name, the file at its output path
\* and the remover when the calls were issued
Job(format_name, old, shared) ==
    [ format |-> format_name, pc |-> "start", f |-> NoSource, method |-> "",
      file |-> NoFile, steps |-> << >>, result |-> Failed(format_name, ""),
      old0 |-> old, remover0 |-> shared ]

\* a service whose BackgroundRemover has been constructed, over a directory
\* that is absent, empty or holds earlier outputs
ParInit ==
    /\ src \in ParSources
    /\ call = NoCall
    /\ service = "unconstructed"
    /\ pc = "idle"
    /\ selected_formats = {}
    /\ remove_background = FALSE
    /\ pending = {}
    /\ results = << >>
    /\ steps = [ f \in FormatIds |-> << >> ]
    /\ \/ dir_exists = FALSE /\ files = [ p \in OutputPaths |-> NoFile ]
       \/ dir_exists = TRUE  /\ files = [ p \in OutputPaths |-> NoFile ]
       \/ dir_exists = TRUE  /\ files = [ p \in OutputPaths |-> OldOutput ]
    /\ ndarray = NoArray
    /\ remover \in { [ method |-> m ] : m \in RemovalMethod }
    /\ worker = NoWorker
    /\ jobs = << >>
    /\ IdleWindow

\* two calls of _process_single_format for different formats are issued
ParStart(f1, f2, rb) ==
    /\ jobs = << >>
    /\ f1 # f2
    /\ remove_background' = rb
    /\ selected_formats' = { f1, f2 }
    /\ jobs' = << Job(f1, files[OutputPath(f1)], remover),
                  Job(f2, files[OutputPath(f2)], remover) >>
    /\ UNCHANGED << src, service, pc, pending, results, files, dir_exists, steps, call,
                    pixelVars, worker, uiVars >>

\* cv2.imread / Image.open: the call reads the source file
JobLoad(j) ==
    /\ jobs[j].pc = "start"
    /\ jobs' = [ jobs EXCEPT ![j].pc = "loaded", ![j].f = src ]
    /\ UNCHANGED << src, batchVars, call, pixelVars, worker, uiVars >>

\* mutant of JobGate: the remover falls back to another method and keeps it
JobGate_Mutating(j) ==
    /\ jobs[j].pc = "loaded"
    /\ jobs' = [ jobs EXCEPT ![j].pc = "gated", ![j].method = remover.method ]
    /\ remover' = [ remover EXCEPT !.method = "threshold" ]
    /\ UNCHANGED << src, batchVars, call, ndarray, worker, uiVars >>

\* detect_white_background / remove_background on the shared remover: the
\* call reads self.method and writes no field
JobGate(j) ==
    /\ jobs[j].pc = "loaded"
    /\ jobs' = [ jobs EXCEPT ![j].pc = "gated", ![j].method = remover.method ]
    /\ remover' = remover
    /\ UNCHANGED << src, batchVars, call, ndarray, worker, uiVars >>

\* the processor resizes or stylizes what the call has read and saves it at
\* the output path of its format
JobSave(j) ==
    /\ jobs[j].pc = "gated"
    /\ \E r \in process_single_format(jobs[j].f, jobs[j].format, remove_background,
                                      files[OutputPath(jobs[j].format)], dir_exists, FALSE) :
         /\ jobs' = [ jobs EXCEPT ![j].pc = "saved", ![j].result = r.result,
                                  ![j].steps = r.steps, ![j].file = r.file ]
         /\ files' = [ files EXCEPT ![OutputPath(jobs[j].format)] = r.file ]
    /\ UNCHANGED << src, service, pc, selected_formats, remove_background, pending,
                    results, dir_exists, steps, call, pixelVars, worker, uiVars >>

\* the call returns its record
JobReturn(j) ==
    /\ jobs[j].pc = "saved"
    /\ jobs' = [ jobs EXCEPT ![j].pc = "done" ]
    /\ results' = Append(results, jobs[j].result)
    /\ UNCHANGED << src, service, pc, selected_formats, remove_background, pending,
                    files, dir_exists, steps, call, pixelVars, worker, uiVars >>

ParNext ==
    \/ \E f1, f2 \in ParFormats, rb \in BOOLEAN : ParStart(f1, f2, rb)
    \/ \E j \in 1..Len(jobs) : JobLoad(j)
    \/ \E j \in 1..Len(jobs) : JobGate(j)
    \/ \E j \in 1..Len(jobs) : JobSave(j)
    \/ \E j \in 1..Len(jobs) : JobReturn(j)

SpecPar == ParInit /\ [][ParNext]_vars

\* what the call for format_name gives when it runs alone from the state in
\* which the calls were issued
Alone(format_name, old) ==
    process_single_format(src, format_name, remove_background, old, dir_exists, FALSE)

----------------------------------------------------------------------------
(* Claims about the scaled size and its place on the canvas *)

\* n / d rounded to the nearest integer, for n >= 0 and d > 0
Round(n, d) == (2 * n + d) \div (2 * d)

\* the fit of the specification: the width is pinned for a source relatively
\* wider than the target, the height otherwise
ReferenceFit(w, h, tw, th) ==
    IF w * th > tw * h
    THEN << tw, Round(tw * h, w) >>
    ELSE << Round(th * w, h), th >>

\* C22: calculate_dimensions gives the reference fit for every source (w, h)
\* and target (tw, th): new_w = tw and new_h = round(tw * h / w) when
\* w/h > tw/th, new_h = th and new_w = round(th * w / h) otherwise.
C22_EqualsReferenceFit ==
    call.op = "calculate_dimensions"
        => call.ret.fit.new_size
              = ReferenceFit(src.w, src.h, call.target[1], call.target[2])

\* C23: the scaled image is pasted at left = (tw - new_w) // 2 and
\* top = (th - new_h) // 2, both at least 0, the right and bottom margins
\* being the left and top margins or one pixel more; a source relatively
\* wider than the target spans the full target width and its top and bottom
\* margins differ by at most one pixel.
C23_CentredInsideCanvas ==
    (call.op = "process_format" /\ ~ call.ret.raised)
        => LET tw     == call.target[1]
               th     == call.target[2]
               new_w  == call.ret.fit.new_size[1]
               new_h  == call.ret.fit.new_size[2]
               left   == call.ret.fit.left
               top    == call.ret.fit.top
               right  == tw - new_w - left
               bottom == th - new_h - top
           IN  /\ left = (tw - new_w) \div 2
               /\ top = (th - new_h) \div 2
               /\ left >= 0 /\ top >= 0
               /\ right \in { left, left + 1 }
               /\ bottom \in { top, top + 1 }
               /\ src.w * th > tw * src.h
                     => new_w = tw /\ Abs(bottom - top) <= 1

----------------------------------------------------------------------------
(* Claims about the order of the steps of a format *)

\* the positions of step name in the steps of format f
StepsAt(f, name) == { i \in 1..Len(steps[f]) : steps[f][i] = name }

\* the steps of the canvas-fit resizer and of the service's own loading
CanvasFitSteps == { "imread", "convert_cv_to_pil", "calculate_dimensions", "paste" }

\* the calls of the BackgroundRemover
RemoverSteps == { "detect_white_background", "remove_background" }

\* C24: for PUSH, remove_background runs only with the flag set and then
\* before the stylizer; every run that does not fail stylizes exactly once,
\* then resizes to 96x96, then saves, the save being the last step; no step
\* of the canvas-fit resizer is taken.
C24_PushDispatchOrder ==
    HasResult("PUSH")
        => LET st == steps["PUSH"]
               n  == Len(st)
           IN  /\ \A i \in 1..n : st[i] \notin CanvasFitSteps
               /\ \A i \in StepsAt("PUSH", "remove_background") :
                     /\ remove_background
                     /\ \A j \in StepsAt("PUSH", "stylize") : i < j
               /\ ResultOf("PUSH").status = "success"
                     => /\ n >= 3
                        /\ st[n] = "save" /\ st[n - 1] = "resize" /\ st[n - 2] = "stylize"
                        /\ Cardinality(StepsAt("PUSH", "stylize")) = 1
                        /\ Cardinality(StepsAt("PUSH", "save")) = 1
                        /\ << files[OutputPath("PUSH")].w, files[OutputPath("PUSH")].h >>
                              = FINAL_RESIZE

\* C24 witness: PUSH has succeeded with the flag set on a white source, the
\* remover having run before the stylizer.
C24_Witness ==
    /\ HasResult("PUSH")
    /\ ResultOf("PUSH").status = "success"
    /\ remove_background
    /\ StepsAt("PUSH", "remove_background") # {}
    /\ StepsAt("PUSH", "stylize") # {}

\* C25: for a format other than PUSH the BackgroundRemover is called only
\* when remove_background is set and the format is LOGO, LOGO_WIDE or
\* APPICON: never for DEFAULT, DEFAULT_LG, DEFAULT_XL or FEATURE_GRAPHIC and
\* never with the flag unset.
C25_RemoverOnlyForTransparentFormats ==
    \A f \in FormatIds \ { "PUSH" } :
        \A i \in 1..Len(steps[f]) :
            steps[f][i] \in RemoverSteps
                => /\ remove_background
                   /\ f \in { "LOGO", "LOGO_WIDE", "APPICON" }

\* C25 witness: in one batch with the flag set the remover has run for LOGO
\* and DEFAULT has been processed without it.
C25_Witness ==
    /\ remove_background
    /\ StepsAt("LOGO", "remove_background") # {}
    /\ HasResult("DEFAULT")
    /\ ResultOf("DEFAULT").status = "success"
    /\ \A i \in 1..Len(steps["DEFAULT"]) : steps["DEFAULT"][i] \notin RemoverSteps

\* the state of the job a step belongs to: 1 Validating, 2 Removing,
\* 3 Resizing/Stylizing, 4 Encoding; loading the file and converting between
\* image representations belong to no state of their own
JobStateOf(step) ==
    IF step \in { "validate_file", "open", "validate_dimensions" } THEN 1
    ELSE IF step \in RemoverSteps THEN 2
    ELSE IF step \in { "calculate_dimensions", "resize", "paste", "stylize" } THEN 3
    ELSE IF step = "save" THEN 4
    ELSE 0

\* the states the job of format f has gone through, in order
JobStates(f) ==
    SelectSeq([ i \in 1..Len(steps[f]) |-> JobStateOf(steps[f][i]) ], LAMBDA s : s # 0)

\* C26: the job of a format goes through Validating, optionally Removing,
\* Resizing/Stylizing and Encoding in this order, never back to an earlier
\* state and starting with Validating, and ends in exactly one record,
\* Success or Failed; a batch attempts each requested format once.
C26_LinearJobStates ==
    /\ \A f \in FormatIds :
          LET js == JobStates(f)
          IN  /\ js # << >> => js[1] = 1
              /\ \A i \in 1..Len(js) : \A j \in i..Len(js) : js[i] <= js[j]
    /\ \A i \in ResultIndices :
          /\ results[i].status \in { "success", "failed" }
          /\ \A j \in ResultIndices : results[j].format = results[i].format => i = j
          /\ results[i].format \in selected_formats \ pending

----------------------------------------------------------------------------
(* MainWindow with its FormatSelector and the worker it starts             *)
(* (ui/main_window.py, ui/components/format_selector.py, utils/worker.py): *)
(* specification SpecUI.                                                   *)
(* get_selected returns the set FormatSelector.selected itself and the     *)
(* worker keeps it as self.formats, so the for-loop of process iterates    *)
(* over window.selected while the checkboxes change it.  A Python set      *)
(* iterator raises RuntimeError when the size of the set differs from the  *)
(* size it had when the iterator was made, and otherwise yields the next   *)
(* entry of the hash table behind its cursor: worker.it_used is that size, *)
(* worker.it_pos the cursor as a position in window.order.                 *)
(* A QThread is "running" from start() until its event loop has left,      *)
(* then "finished", "scheduled" once deleteLater has been called and       *)
(* "deleted" once the deferred deletion has run; worker_obj is "alive",    *)
(* "scheduled" after finished has called deleteLater, "deleted" when the   *)
(* thread has ended.                                                       *)

\* clicks on checkboxes during the job of a behaviour of SpecUI
MaxToggles == 4

\* jobs started in a behaviour of SpecWindow
MaxRuns == 2

\* the checkboxes of the selector
UIFormats == { "DEFAULT", "LOGO", "PUSH" }

\* the orders in which a hash table can hold the format names
HashOrders ==
    { q \in [ 1..Cardinality(UIFormats) -> UIFormats ] :
        \A a, b \in 1..Cardinality(UIFormats) : a # b => q[a] # q[b] }

UISources == { PngFile(500, 500, 255) }

\* the window is shown, some checkboxes having been clicked; clicks and runs
\* are the clicks and the jobs to come
WindowShown(clicks, runs) ==
    /\ src \in UISources
    /\ call = NoCall
    /\ IdleBatch
    /\ IdlePixels
    /\ IdleThreads
    /\ signals = << >>
    /\ \E sel \in SUBSET UIFormats, order \in HashOrders :
          window = [ NoWindow EXCEPT !.selected = sel, !.order = order,
                                     !.clicks_left = clicks, !.runs_left = runs ]

\* one job, during which checkboxes are clicked
UIInit == WindowShown(MaxToggles, 1)

Emitted(name, value) == [ name |-> name, value |-> value ]

\* self.thread
CurrentThread == window.threads[Len(window.threads)]

\* the window after one more state of self.thread
SetCurrentThread(w, state) == [ w EXCEPT !.threads[Len(w.threads)] = state ]

\* FormatSelector._on_selection_changed(format_name, checked), lines 185-197,
\* on a click on a checkbox while the thread of a job runs (the clicks made
\* before a job are in the selection the window starts with)
UIToggle(format_name) ==
    /\ ~ window.closed
    /\ window.clicks_left > 0
    /\ worker.pc \in { "start", "processing" }
    /\ window' = [ window EXCEPT
                     !.selected = IF format_name \in @ THEN @ \ { format_name }
                                                       ELSE @ \cup { format_name },
                     !.clicks_left = @ - 1 ]
    /\ UNCHANGED << src, batchVars, call, pixelVars, threadVars, signals >>

\* MainWindow._process_images, lines 249-298, on a click on the Process
\* button: _validate_inputs, _start_processing_progress, the thread and the
\* worker created, the thread started
UIProcess(rb) ==
    /\ ~ window.closed
    /\ window.process_button
    /\ window.runs_left > 0
    /\ src.exists /\ Lower(src.suffix) \in IP_allowed_formats
    /\ window.selected # {}
    /\ window' = [ window EXCEPT !.process_button = FALSE,
                                 !.threads = Append(@, "running"),
                                 !.worker_obj = "alive",
                                 !.at_start = window.selected,
                                 !.runs_left = @ - 1 ]
    /\ worker' = [ NoWorker EXCEPT !.pc = "start", !.remove_background = rb ]
    /\ signals' = << >>
    /\ UNCHANGED << src, batchVars, call, pixelVars, jobs >>

\* the end of process: finished is emitted, which calls worker.deleteLater
\* in the worker's thread and queues thread.quit for the window
Finished(sent) ==
    /\ signals' = signals \o sent \o << Emitted("finished", 0) >>
    /\ window' = [ window EXCEPT !.worker_obj = "scheduled" ]

\* ImageProcessingWorker.process, lines 32-43: started and status emitted,
\* total_formats read, the output directory created, the iterator of the
\* for-loop made.  mkdir_fails: the directory cannot be created.
UIWorkerBegin(mkdir_fails) ==
    /\ worker.pc = "start"
    /\ IF mkdir_fails
       THEN /\ worker' = [ worker EXCEPT !.pc = "done",
                                         !.total_formats = Cardinality(window.selected) ]
            /\ Finished(<< Emitted("started", 0), Emitted("status", 0),
                           Emitted("error", "Permission denied") >>)
            /\ UNCHANGED dir_exists
       ELSE /\ worker' = [ worker EXCEPT !.pc = "next", !.i = 0,
                                         !.total_formats = Cardinality(window.selected),
                                         !.it_used = Cardinality(window.selected),
                                         !.it_pos = 0 ]
            /\ signals' = signals \o << Emitted("started", 0), Emitted("status", 0) >>
            /\ dir_exists' = TRUE
            /\ UNCHANGED window
    /\ UNCHANGED << src, service, pc, selected_formats, remove_background, pending,
                    results, files, steps, call, pixelVars, jobs >>

\* int((i / total_formats) * 100)
IntPercent(i, total_formats) == (i * 100) \div total_formats

\* the positions of the hash table behind the cursor that hold a format
Ahead == { k \in (worker.it_pos + 1)..Len(window.order) :
             window.order[k] \in window.selected }

\* lines 43-49 and 65-72: the for-loop asks its iterator for the next format.
\* The iterator raises when the set has changed its size, and the except
\* branch emits error; when it is exhausted, or when is_cancelled is set, the
\* loop is left and progress 100 and result are emitted; otherwise progress
\* is emitted for the format yielded.
UIWorkerNext ==
    /\ worker.pc = "next"
    /\ IF Cardinality(window.selected) # worker.it_used
       THEN /\ worker' = [ worker EXCEPT !.pc = "done" ]
            /\ Finished(<< Emitted("error", "Set changed size during iteration") >>)
       ELSE IF Ahead = {} \/ worker.is_cancelled
       THEN /\ worker' = [ worker EXCEPT !.pc = "done", !.emitted = worker.results,
                                         !.observed = Ahead # {} ]
            /\ Finished(<< Emitted("progress", 100), Emitted("result", worker.results) >>)
       ELSE LET k == CHOOSE k \in Ahead : \A m \in Ahead : k <= m
            IN  /\ worker' = [ worker EXCEPT !.pc = "processing", !.it_pos = k,
                                             !.started = Append(@, window.order[k]) ]
                /\ signals' = Append(signals,
                                     Emitted("progress",
                                             IntPercent(worker.i, worker.total_formats)))
                /\ UNCHANGED window
    /\ UNCHANGED << src, batchVars, call, pixelVars, jobs >>

\* lines 51-63: process_single_format for the format yielded, its result
\* appended
UIWorkerProcess ==
    /\ worker.pc = "processing"
    /\ LET format_name == worker.started[Len(worker.started)]
       IN  \E r \in process_single_format(src, format_name, worker.remove_background,
                                          files[OutputPath(format_name)], dir_exists, FALSE) :
             /\ worker' = [ worker EXCEPT !.pc = "next", !.i = @ + 1,
                                          !.results = Append(@, r.result) ]
             /\ files' = [ files EXCEPT ![OutputPath(format_name)] = r.file ]
             /\ steps' = [ steps EXCEPT ![format_name] = r.steps ]
    /\ UNCHANGED << src, service, pc, selected_formats, remove_background, pending,
                    results, dir_exists, call, pixelVars, jobs, uiVars >>

\* the window handles the queued thread.quit: the event loop of the thread
\* is left, the deferred deletion of the worker runs, the thread ends
UIQuit ==
    /\ ~ window.closed
    /\ window.threads # << >>
    /\ CurrentThread = "running"
    /\ worker.pc = "done"
    /\ window' = [ SetCurrentThread(window, "finished") EXCEPT !.worker_obj = "deleted" ]
    /\ UNCHANGED << src, batchVars, call, pixelVars, threadVars, signals >>

\* the window handles thread.finished, lines 286 and 295:
\* thread.deleteLater, then _stop_processing_progress
UIThreadFinished ==
    /\ ~ window.closed
    /\ window.threads # << >>
    /\ CurrentThread = "finished"
    /\ window' = [ SetCurrentThread(window, "scheduled") EXCEPT !.process_button = TRUE ]
    /\ UNCHANGED << src, batchVars, call, pixelVars, threadVars, signals >>

\* the event loop of the window runs the deferred deletion of the thread
UIDeferredDelete ==
    /\ ~ window.closed
    /\ window.threads # << >>
    /\ CurrentThread = "scheduled"
    /\ window' = SetCurrentThread(window, "deleted")
    /\ UNCHANGED << src, batchVars, call, pixelVars, threadVars, signals >>

\* the calls on self.thread that reach a QThread already scheduled for
\* deletion, and the RuntimeError a call on a deleted one raises
OnThread(w, method) ==
    [ w EXCEPT !.stale = IF CurrentThread \in { "scheduled", "deleted" }
                         THEN @ \cup { method } ELSE @,
               !.raised = IF CurrentThread = "deleted"
                          THEN @ \cup { "RuntimeError: Internal C++ object already deleted" }
                          ELSE @ ]

\* self.worker.cancel() as the window calls it
OnWorkerCancel(w) ==
    [ w EXCEPT !.stale = IF w.worker_obj \in { "scheduled", "deleted" }
                         THEN @ \cup { "worker.cancel" } ELSE @ ]

\* MainWindow._cancel_processing, lines 306-310, on a click on the Cancel
\* button
UICancel ==
    /\ ~ window.closed
    /\ ~ window.process_button
    /\ window.threads # << >>
    /\ window' = IF CurrentThread = "running"
                 THEN OnWorkerCancel(OnThread(window, "thread.isRunning"))
                 ELSE OnThread(window, "thread.isRunning")
    /\ worker' = IF CurrentThread = "running"
                 THEN [ worker EXCEPT !.is_cancelled = TRUE ]
                 ELSE worker
    /\ UNCHANGED << src, batchVars, call, pixelVars, jobs, signals >>

\* MainWindow.closeEvent, lines 378-393.  confirm: the answer to the
\* confirmation asked while a thread runs.
UIClose(confirm) ==
    /\ ~ window.closed
    /\ IF window.threads = << >>
       THEN /\ window' = [ window EXCEPT !.closed = TRUE ]
            /\ UNCHANGED worker
       ELSE IF CurrentThread = "running"
       THEN IF confirm
            THEN /\ window' = [ OnWorkerCancel(window) EXCEPT !.closed = TRUE ]
                 /\ worker' = [ worker EXCEPT !.is_cancelled = TRUE ]
            ELSE UNCHANGED << window, worker >>
       ELSE /\ window' = [ OnThread(window, "thread.isRunning") EXCEPT !.closed = TRUE ]
            /\ UNCHANGED worker
    /\ UNCHANGED << src, batchVars, call, pixelVars, jobs, signals >>

UINext ==
    \/ \E format_name \in UIFormats : UIToggle(format_name)
    \/ \E rb \in BOOLEAN : UIProcess(rb)
    \/ \E mkdir_fails \in BOOLEAN : UIWorkerBegin(mkdir_fails)
    \/ UIWorkerNext
    \/ UIWorkerProcess
    \/ UIQuit
    \/ UIThreadFinished
    \/ UIDeferredDelete
    \/ UICancel
    \/ \E confirm \in BOOLEAN : UIClose(confirm)

SpecUI == UIInit /\ [][UINext]_vars

\* several jobs one after the other, no checkbox being clicked meanwhile
WindowInit == WindowShown(0, MaxRuns)

WindowNext ==
    \/ \E rb \in BOOLEAN : UIProcess(rb)
    \/ \E mkdir_fails \in BOOLEAN : UIWorkerBegin(mkdir_fails)
    \/ UIWorkerNext
    \/ UIWorkerProcess
    \/ UIQuit
    \/ UIThreadFinished
    \/ UIDeferredDelete
    \/ UICancel
    \/ \E confirm \in BOOLEAN : UIClose(confirm)

SpecWindow == WindowInit /\ [][WindowNext]_vars

----------------------------------------------------------------------------
(* Claims about the window and its worker *)

\* the positions of the signals called name
SignalsAt(name) == { k \in 1..Len(signals) : signals[k].name = name }

\* the formats the for-loop of the job has started
StartedFormats == { worker.started[k] : k \in 1..Len(worker.started) }

\* the job has left its loop neither through a cancel nor through a failure
\* to create the output directory
RanToTheEnd ==
    /\ worker.pc = "done"
    /\ ~ worker.is_cancelled
    /\ \A k \in SignalsAt("error") : signals[k].value # "Permission denied"

\* C27: the formats of a running job are those selected when the job was
\* started: clicks on checkboxes while the worker iterates add no format to
\* the job, remove none from it and do not disturb it.
C27_SelectionFixedAtStart ==
    worker.pc \in { "next", "processing", "done" }
        => /\ StartedFormats \subseteq window.at_start
           /\ \A a, b \in 1..Len(worker.started) :
                 worker.started[a] = worker.started[b] => a = b
           /\ RanToTheEnd
                 => /\ StartedFormats = window.at_start
                    /\ SignalsAt("error") = {}
                    /\ SignalsAt("result") # {}

\* C28: a run of process emits started first and finished once and last,
\* emits result or error but not both, result once and straight after a
\* progress of 100, and progress values that never decrease and lie in
\* 0..100.
C28_SignalProtocol ==
    LET n == Len(signals)
    IN  /\ n > 0 => signals[1].name = "started"
        /\ SignalsAt("started") \subseteq { 1 }
        /\ SignalsAt("finished") \subseteq { n }
        /\ worker.pc = "done"
              => /\ SignalsAt("finished") = { n }
                 /\ (SignalsAt("result") = {}) # (SignalsAt("error") = {})
        /\ SignalsAt("finished") # {} => worker.pc = "done"
        /\ SignalsAt("result") = {} \/ SignalsAt("error") = {}
        /\ Cardinality(SignalsAt("result")) <= 1
        /\ \A k \in SignalsAt("result") :
              /\ k > 1
              /\ signals[k - 1] = Emitted("progress", 100)
        /\ \A k \in SignalsAt("progress") :
              /\ signals[k].value \in 0..100
              /\ \A j \in SignalsAt("progress") : j < k => signals[j].value <= signals[k].value

\* C29: over Process, Cancel and close actions at most one thread runs at a
\* time, no handler calls a method of a thread or worker that has finished
\* and been scheduled for deletion, and no handler raises.
C29_OneThreadNoStaleCall ==
    /\ Cardinality({ k \in 1..Len(window.threads) : window.threads[k] = "running" }) <= 1
    /\ window.stale = {}
    /\ window.raised = {}

----------------------------------------------------------------------------
(* Claims about a second pass of the remover and about the contrast class *)

SpreadExceedsHalf(a) ==
    LET N  == Cardinality(Cells(a))
        S1 == SumCells(a.gray, Cells(a))
        S2 == SumCells([ c \in Cells(a) |-> a.gray[c] * a.gray[c] ], Cells(a))
    IN  4 * (N * S2 - S1 * S1) > N * N

\* C30: the stylizer takes an image for high contrast exactly when the
\* standard deviation of its gray levels exceeds 0.5, so never an image of a
\* single gray level; high contrast selects sigma 0.5 and the thresholds
\* (50, 150), low contrast sigma 1.0 and the thresholds (30, 100).
C30_ContrastClass ==
    (call.op = "create_coloring_book_effect" /\ ~ call.ret.raised)
        => /\ call.parameters.high_contrast = SpreadExceedsHalf(ndarray)
           /\ call.parameters.high_contrast
                 => call.parameters.sigma10 = 5
                    /\ call.parameters.thresholds = << 50, 150 >>
           /\ ~ call.parameters.high_contrast
                 => call.parameters.sigma10 = 10
                    /\ call.parameters.thresholds = << 30, 100 >>

====
